---- MODULE Spec2Model ----
(***************************************************************************)
(* NEXUS conversation orchestrator: the durable store (ledger, messages,   *)
(* pending actions, audit log), the policy engine, the redactor and        *)
(* NexusLoop.handle_inbound with its ReAct loop, as a state machine.       *)
(*                                                                         *)
(* handle_inbound is a coroutine: it runs without interruption between two *)
(* suspension points (the LLM call, the tool run, the hand-off of an       *)
(* outbound to its channel).  BridgeClient.run_forever and CLIChannel.run  *)
(* each await the handler before they read the next message, so there is   *)
(* one call slot per channel; its pc names the suspension point the call   *)
(* waits at.  Store calls, tool runs and channel hand-offs may raise; the  *)
(* process may be killed at any moment (Crash), which keeps only the store.*)
(***************************************************************************)
EXTENDS Integers, Sequences, FiniteSets, TLC

\* ------------------------------------------------------------------ bounds
MaxCalls == 2
MaxSessionCalls == 3
MaxConfiguredSteps == 2
MaxFaults == 1
MaxReceipts == 1
MaxReminders == 1
TickMinutes == 10
MaxTime == 20
MaxWindow == 2
MaxTurns == 4
MaxJobs == 2
MaxBoots == 2
MaxFires == 2
MaxEnvelopes == 2
MaxPayloads == 3
MaxListed == 2
MaxLongSteps == 3
MaxAwaited == 3
MaxEmissions == 2
MaxLines == 3

\* ------------------------------------------------------- program constants
ttl_minutes == 10

MsgIds == 1..MaxSessionCalls
StepConfigs == {0, MaxConfiguredSteps}
Channels == {"whatsapp", "cli"}

\* ------------------------------------------------------------------- texts
\* A text is a sequence of tokens: "w" is a run of ordinary text, "S" is a
\* substring that matches one of settings.redaction_patterns, "[REDACTED]" is
\* the mask.
Plain == <<"w">>
Secret == <<"S">>
InputTexts == {Plain, Secret}

\* Concatenation: two adjacent runs of ordinary text are one run.
Cat(a, b) ==
    IF a # <<>> /\ b # <<>> /\ a[Len(a)] = "w" /\ b[1] = "w"
    THEN a \o Tail(b) ELSE a \o b

redact(text) ==
    [i \in DOMAIN text |-> IF text[i] = "S" THEN "[REDACTED]" ELSE text[i]]

\* A text in Markdown: "#" is a heading line, which the WhatsApp formatter
\* rewrites to a bold line, "*".
Markdown == <<"#">>

\* format_whatsapp_text, defined in core/text_format.py; nothing in core/loop.py
\* calls it.
format_whatsapp_text(text) ==
    [i \in DOMAIN text |-> IF text[i] = "#" THEN "*" ELSE text[i]]

HasRaw(text) == \E i \in DOMAIN text : text[i] = "S"

\* ------------------------------------------------------------------- store
\* message_ledger: message_id -> [direction, chat_id]; PRIMARY KEY message_id.
insert_ledger(led, message_id, direction, chat_id) ==
    [x \in (DOMAIN led) \cup {message_id} |->
        IF x = message_id THEN [direction |-> direction, chat_id |-> chat_id]
        ELSE led[x]]

ledger_contains(led, message_id, direction) ==
    /\ message_id \in DOMAIN led
    /\ led[message_id].direction = direction

\* INSERT OR IGNORE; the returned flag is cursor.rowcount.
claim_ledger_replace(led, message_id, direction, chat_id) ==
    [led |-> insert_ledger(led, message_id, direction, chat_id), claimed |-> TRUE]

claim_ledger_by_direction(led, message_id, direction, chat_id) ==
    IF ledger_contains(led, message_id, direction)
    THEN [led |-> led, claimed |-> FALSE]
    ELSE [led |-> insert_ledger(led, message_id, direction, chat_id), claimed |-> TRUE]

claim_ledger(led, message_id, direction, chat_id) ==
    IF message_id \in DOMAIN led
    THEN [led |-> led, claimed |-> FALSE]
    ELSE [led |-> insert_ledger(led, message_id, direction, chat_id), claimed |-> TRUE]

\* str(uuid4()): an identifier no earlier row carries.  Rows keyed by fresh
\* identifiers never replace one another; the model keeps them up to their
\* content.
uuid4 == <<1, 0>>

\* messages: a set of rows [id, role, text]; INSERT OR REPLACE by id.
insert_message(msgs, message_id, role, text) ==
    {r \in msgs : r.id # message_id \/ message_id = uuid4}
        \cup {[id |-> message_id, role |-> role, text |-> text]}

HasRow(msgs, message_id) == \E r \in msgs : r.id = message_id

\* pending_actions: a sequence in created_at order.
PendingIdx(pend, chat_id) ==
    {i \in DOMAIN pend : pend[i].chat_id = chat_id /\ pend[i].status = "pending"}

PendingIdxAnyStatus(pend, chat_id) ==
    {i \in DOMAIN pend : pend[i].chat_id = chat_id}

Latest(S) == CHOOSE i \in S : \A j \in S : j <= i

get_latest_any_status(pend, chat_id) ==
    IF PendingIdxAnyStatus(pend, chat_id) = {} THEN 0
    ELSE Latest(PendingIdxAnyStatus(pend, chat_id))

\* The same query without its chat_id condition.
get_latest_pending_any_chat(pend, chat_id) ==
    IF {i \in DOMAIN pend : pend[i].status = "pending"} = {} THEN 0
    ELSE Latest({i \in DOMAIN pend : pend[i].status = "pending"})

\* The same query with ORDER BY created_at ASC.
get_oldest_pending_action(pend, chat_id) ==
    IF PendingIdx(pend, chat_id) = {} THEN 0
    ELSE CHOOSE i \in PendingIdx(pend, chat_id) :
             \A j \in PendingIdx(pend, chat_id) : i <= j

\* SELECT ... WHERE chat_id = ? AND status = 'pending' ORDER BY created_at DESC LIMIT 1
get_latest_pending_action(pend, chat_id) ==
    IF PendingIdx(pend, chat_id) = {} THEN 0 ELSE Latest(PendingIdx(pend, chat_id))

update_pending_status(pend, i, status) ==
    [pend EXCEPT ![i].status = status,
                 ![i].history = Append(@, status)]

\* ------------------------------------------------------------------ policy
YES == {"yes"}
NO == {"no"}

parse_confirmation_swapped(kind) ==
    IF kind \in YES THEN "denied"
    ELSE IF kind \in NO THEN "approved"
    ELSE "none"

parse_confirmation(kind) ==
    IF kind \in YES THEN "approved"
    ELSE IF kind \in NO THEN "denied"
    ELSE "none"

\* ---------------------------------------------------------------- decisions
\* A model output as parse_agent_decision sees it.  wrap is how the decision
\* object comes: as an object, inside prose, as the first element of an array,
\* or not at all (an empty array, an array of something else, a scalar, no
\* JSON, no content).  thought, call and response are the fields of the object.
Wraps == {"object", "prose", "array", "empty_array", "array_scalar", "scalar",
          "garbage", "none"}
Thoughts == {"absent", "blank", "text"}
CallFields == {"absent", "null", "noname", "valid"}
ResponseFields == {"absent", "null", "blank", "text"}

Payloads ==
    {[wrap |-> w, thought |-> t, call |-> c, response |-> r] :
        w \in Wraps, t \in Thoughts, c \in CallFields, r \in ResponseFields}

NoPayload == [wrap |-> "none", thought |-> "absent", call |-> "absent",
              response |-> "absent"]

Rejected == [ok |-> FALSE, has_call |-> FALSE, has_response |-> FALSE]

\* _coerce_payload: is there a JSON object to validate.
coerce_payload(p) == p.wrap \in {"object", "prose", "array"}

\* AgentDecision._validate_exclusive_action
validate_any_action(has_call, has_response) == has_call \/ has_response
validate_exclusive_action(has_call, has_response) == has_call # has_response

\* parse_agent_decision: the field validators, then the model validator.
parse_agent_decision(p) ==
    LET has_call == p.call \notin {"absent", "null"}
        has_response == p.response \notin {"absent", "null"}
    IN  IF /\ coerce_payload(p)
           /\ p.thought = "text"
           /\ p.call # "noname"
           /\ p.response # "blank"
           /\ validate_exclusive_action(has_call, has_response)
        THEN [ok |-> TRUE, has_call |-> has_call, has_response |-> has_response]
        ELSE Rejected

\* ------------------------------------------------------------------- state
VARIABLES
    agent_max_steps,  \* settings.agent_max_steps
    now,              \* wall clock, in minutes
    ledger,           \* message_ledger table
    messages,         \* messages table
    pending,          \* pending_actions table, in created_at order
    redacted_log,     \* the line the last step appended to redacted.log
    wire,             \* the text the last step handed to a channel adapter
    calls,            \* per channel: the handle_inbound call its loop awaits
    handled,          \* handle_inbound calls made so far
    claimLog,         \* per message id: what claim_ledger returned, in order
    userRows,         \* per message id: user rows written
    reminders,        \* scheduler reminders emitted so far
    receipts,         \* delivery receipts registered so far
    faults,           \* exceptions that reached the except branch
    payload,          \* the model output last given to parse_agent_decision
    parsed,           \* what parse_agent_decision made of it
    session_window_turns,  \* settings.session_window_turns
    session,          \* MemoryStore._session: per chat, the deque of turns
    arrived,          \* per chat: append_turn calls made so far
    jobs,             \* jobs table, in created_at order
    triggers,         \* job ids the in-process scheduler holds a trigger for
    scheduled,        \* jobs scheduled so far
    restored,         \* the last restore_jobs: its counts, and the day it ran
    next_run_time,    \* per job id: the next run of its trigger, 0 without one
    fires,            \* the job ids whose trigger fired, in order
    bridge,           \* BridgeClient: its loop, its socket, its last envelope
    filtered,         \* the identities and flags of the last WhatsApp inbound
    loops,            \* the channel loops of main and the coroutines they run
    console,          \* CLIChannel.run: the lines read and the inbounds made
    ran               \* the last cancel, update or list of the scheduler tool

vars == <<agent_max_steps, now, ledger, messages, pending, redacted_log, wire,
          calls, handled, claimLog, userRows, reminders, receipts, faults,
          payload, parsed, session_window_turns, session, arrived,
          jobs, triggers, scheduled, restored, next_run_time, fires, bridge,
          filtered, loops, console, ran>>

\* The channel loops seen from outside handle_inbound.
aside == <<loops, console, ran>>

\* The store, the clock and the coroutines of the channel loops.
inpath == <<agent_max_steps, now, ledger, messages, pending, redacted_log, wire,
            calls, handled, claimLog, userRows, reminders, receipts, faults>>

\* What the steps of handle_inbound, the channel loops and the clock leave
\* alone in this model: the decision parser's input and output, the session
\* windows, which feed the prompt only, and the scheduler with its jobs, which
\* only the scheduler tool touches.
offpath == <<payload, parsed, session_window_turns, session, arrived,
             jobs, triggers, scheduled, restored, next_run_time, fires, bridge,
             filtered, aside>>

ProviderId(i) == <<0, i>>
InboundIds == {ProviderId(i) : i \in MsgIds}

CliChat == "cli-user"
WaChat == "self@lid"
ChatOf(channel) == IF channel = "cli" THEN CliChat ELSE WaChat

\* What the model returned at a step, as far as the loop looks at it: a text of
\* body characters with pad blanks around it.  A step whose router call failed
\* has the empty text.
SnippetLimit == 2000
NoContent == [pad |-> 0, body |-> 0]
RawContents ==
    {[pad |-> p, body |-> b] :
        p \in {0, 1}, b \in {0, 1, SnippetLimit, SnippetLimit + 1}}

Min(a, b) == IF a <= b THEN a ELSE b

\* str.strip()
strip(content) == [content EXCEPT !.pad = 0]

\* snippet[:2000]
CutWhole(content, limit) == content
Cut(content, limit) == [content EXCEPT !.body = Min(@, limit)]

\* An entry of step_messages: the role, what the content is, and the length of
\* a quoted model text.
StepMessage(role, kind, len) == [role |-> role, kind |-> kind, len |-> len]

\* _run_react_loop, a failed step: the trimmed model text, cut, when there is
\* one, then the correction request.
Correction(raw_content) ==
    LET snippet == strip(raw_content)
    IN  (IF snippet.body > 0
         THEN <<StepMessage("assistant", "snippet", Cut(snippet, SnippetLimit).body)>>
         ELSE <<>>)
        \o <<StepMessage("user", "correction", 0)>>

\* _run_react_loop, a tool step: the call as the assistant made it, then the
\* observation.
Observation ==
    <<StepMessage("assistant", "call", 0), StepMessage("user", "observation", 0)>>

\* The same for a result with ok = false: the observation starts with
\* status=error.
ErrorObservation ==
    <<StepMessage("assistant", "call", 0),
      StepMessage("user", "observation status=error", 0)>>

\* An observation that leaves the status out.
format_observation_ok(ok) == Observation

\* _format_observation: status = "ok" if result.ok else "error"
format_observation(ok) == IF ok THEN Observation ELSE ErrorObservation

\* The audit event of a step that produced no valid decision: loop.step with
\* ok = false.
FailedStep == "loop.step ok=false"

\* The chat_id a command's JSON or a decision's arguments may carry; NoChat when
\* they carry none.
NoChat == "-"
ArgChats == {NoChat, CliChat, WaChat}

\* The arguments of a tool call, as far as the orchestrator touches them.
NoArgs == [chat_id |-> NoChat, confirmed |-> FALSE]

\* _invoke_tool: call_args.setdefault("chat_id", inbound.chat_id), and
\* call_args["confirmed"] = True for a confirmed call.
invoke_tool(args, chat_id, confirmed) ==
    [chat_id |-> IF args.chat_id = NoChat THEN chat_id ELSE args.chat_id,
     confirmed |-> confirmed \/ args.confirmed]

\* The shapes of an inbound text: "tool" is /tool <name> <JSON object>, "usage"
\* is /tool <name> <invalid JSON>.
TextKinds == {"blank", "yes", "no", "tool", "usage", "plain"}

\* Further shapes of a command: /tool <name>, /tool <name> <JSON that is no
\* object>, /schedule <when> | <text>, /schedule without '|', /schedule and
\* blanks only, /jobs.
CommandKinds == {"tool_short", "tool_list", "schedule", "schedule_nobar",
                 "schedule_bare", "jobs"}

parse_tool_command_none(inb) == [type |-> "none", args |-> NoArgs]

\* _parse_tool_command: the direct command of a text, if it is one.
parse_tool_command(inb) ==
    CASE inb.kind = "tool" ->
             [type |-> "tool", args |-> [NoArgs EXCEPT !.chat_id = inb.arg_chat]]
      [] inb.kind \in {"tool_list", "schedule", "jobs"} ->
             [type |-> "tool", args |-> NoArgs]
      [] inb.kind \in {"usage", "schedule_nobar"} ->
             [type |-> "response", args |-> NoArgs]
      [] OTHER -> [type |-> "none", args |-> NoArgs]

SecretKinds == {"tool", "usage", "plain"}
WaFlags == {<<TRUE, TRUE, TRUE>>, <<TRUE, FALSE, TRUE>>,
            <<TRUE, FALSE, FALSE>>, <<FALSE, TRUE, TRUE>>}

\* The inbound messages a channel may deliver (InboundMessage), with the first
\* n provider ids and texts drawn from T.
Inbounds(n, T) ==
    {[id |-> ProviderId(i), channel |-> ch, is_self_chat |-> fl[1],
      is_from_me |-> fl[2], sender_matches |-> fl[3], kind |-> k, text |-> t,
      media |-> md, arg_chat |-> NoChat] :
        i \in 1..n, ch \in Channels, fl \in WaFlags, k \in TextKinds,
        t \in T, md \in BOOLEAN}

\* What the channels build: the CLI sets the three flags itself and carries no
\* media; a media message is taken with an empty caption.
ValidInbound(inb) ==
    /\ inb.channel = "cli" =>
          /\ inb.is_self_chat /\ ~inb.is_from_me /\ inb.sender_matches
          /\ ~inb.media
    /\ inb.media => inb.kind = "blank"
    /\ HasRaw(inb.text) => inb.kind \in SecretKinds

\* A WhatsApp identity, "<user>[:<device>][@<domain>]": user "A" is user "a"
\* in capitals, at says whether there is an "@", and the domain may be empty.
Identities ==
    {id \in [user : {"", "a", "A", "b"}, device : BOOLEAN, at : BOOLEAN,
             domain : {"", "lid", "s.whatsapp.net"}] :
        ~id.at => id.domain = ""}

\* str.lower
lower(user) == IF user = "A" THEN "a" ELSE user

NoIdentity == [user |-> "", device |-> FALSE, at |-> FALSE, domain |-> ""]

\* _normalize_wa_identity: lower case, the device suffix cut off, and nothing
\* at all for "user@domain" with an empty user or an empty domain.
normalize_wa_identity(value) ==
    IF ~value.at THEN [NoIdentity EXCEPT !.user = lower(value.user)]
    ELSE IF lower(value.user) # "" /\ value.domain # ""
    THEN [user |-> lower(value.user), device |-> FALSE, at |-> TRUE,
          domain |-> value.domain]
    ELSE NoIdentity

\* _wa_user
wa_user(value) == normalize_wa_identity(value).user

\* _wa_sender_matches_chat without the test for empty users.
wa_users_equal(sender_id, chat_id) == wa_user(sender_id) = wa_user(chat_id)

\* _wa_sender_matches_chat
wa_sender_matches_chat(sender_id, chat_id) ==
    /\ wa_user(sender_id) # "" /\ wa_user(chat_id) # ""
    /\ wa_user(sender_id) = wa_user(chat_id)

NoIdentities ==
    [id |-> <<0, 0>>, sender_id |-> NoIdentity, chat_id |-> NoIdentity,
     is_self_chat |-> FALSE, is_from_me |-> FALSE]

\* handle_inbound, the WhatsApp channel filter.
WaAdmitted(inb) ==
    inb.is_self_chat /\ (inb.is_from_me \/ inb.sender_matches)

\* _effective_user_text: the text, followed by the media block when there is one.
effective_user_text(inb) ==
    IF inb.media THEN (IF inb.kind = "blank" THEN Plain ELSE Cat(inb.text, Plain))
    ELSE IF inb.kind = "blank" THEN <<>> ELSE inb.text

RawText(inb) == IF inb.kind = "blank" THEN <<>> ELSE inb.text

NoInb ==
    [id |-> ProviderId(0), channel |-> "cli", is_self_chat |-> TRUE,
     is_from_me |-> FALSE, sender_matches |-> TRUE, kind |-> "blank",
     text |-> Plain, media |-> FALSE, arg_chat |-> NoChat]

\* The outbounds of a call are "response", "confirm", "maxsteps", "artifact",
\* "toolresult", "cancel", "usage" and "fallback"; the first three end a
\* ReAct loop.
TerminalKinds == {"response", "confirm", "maxsteps"}

\* A channel loop that waits for its next message.  Besides the position of
\* the call, a slot keeps what the call has done so far: the audit rows written
\* under its trace_id, the outbounds it handed over, its LLM and tool calls.
NewCall ==
    [pc |-> "idle", id |-> ProviderId(0), inb |-> NoInb,
     step |-> 0, ctx |-> "-", act |-> 0, args |-> NoArgs, out |-> "-",
     otext |-> <<>>, exc |-> FALSE, ok |-> TRUE, audit |-> <<>>, audit_step |-> <<>>,
     step_messages |-> <<>>, raw_content |-> NoContent,
     proceeded |-> FALSE, dropped |-> FALSE, echo |-> FALSE, nonempty |-> FALSE,
     persisted |-> FALSE, react |-> FALSE, llm |-> 0, tools |-> 0,
     sent |-> <<>>, attempts |-> 0, raised |-> FALSE]

NoLine == [event |-> "-", text |-> <<>>]

\* The step writes no log line and hands nothing to a channel.
Silent == wire' = <<>> /\ redacted_log' = NoLine

\* _write_redacted_log: the redactor is applied to the serialised payload.
write_redacted_log(event, text) == [event |-> event, text |-> redact(text)]

\* ------------------------------------------------------------ bridge client
\* The payloads of a bridge.inbound_message envelope: "valid" validates as an
\* InboundMessage, "invalid" is an object that does not, "scalar" is no object.
PayloadKinds == {"valid", "invalid", "scalar"}

RECURSIVE SeqsUpTo(_, _)
SeqsUpTo(S, n) ==
    IF n = 0 THEN {<<>>}
    ELSE LET shorter == SeqsUpTo(S, n - 1)
         IN  shorter \cup {Append(q, x) : q \in shorter, x \in S}

\* payload_obj if isinstance(payload_obj, list) else [payload_obj]
InboundEnvelopes == SeqsUpTo(PayloadKinds, MaxPayloads)

\* _handle_message on bridge.inbound_message with a loop that gives up at the
\* first payload it cannot use.
inbound_until_bad(payloads, i) ==
    IF i <= Len(payloads) /\ payloads[i] = "valid" THEN <<i>> ELSE <<>>

RECURSIVE inbound_from(_, _)
\* _handle_message on bridge.inbound_message, from payload i on: the positions
\* passed to on_inbound when no call of on_inbound raises.
inbound_from(payloads, i) ==
    IF i > Len(payloads) THEN <<>>
    ELSE IF payloads[i] = "valid" THEN <<i>> \o inbound_from(payloads, i + 1)
    ELSE inbound_from(payloads, i + 1)

\* A provider message id that is the empty string, or absent.
EmptyId == <<0, 0>>

\* The payloads of a bridge.delivery_receipt envelope.  provider_message_ids
\* that is absent or no list is the empty list here.
Receipts ==
    [provider_message_id : {EmptyId} \cup {<<0, i>> : i \in 1..MaxListed},
     provider_message_ids :
        SeqsUpTo({EmptyId} \cup {<<0, i>> : i \in 1..MaxListed}, MaxListed),
     chat_id : {"-", "self@lid"}]

NoReceipt ==
    [provider_message_id |-> EmptyId, provider_message_ids |-> <<>>, chat_id |-> "-"]

Range(seq) == {seq[k] : k \in DOMAIN seq}

\* The loop over provider_message_ids without the test for seen ids.
next_seen_again(seen, candidate) ==
    IF candidate = EmptyId THEN seen ELSE Append(seen, candidate)

\* _handle_message on bridge.delivery_receipt, the body of the loop over
\* provider_message_ids: seen, in the order of the on_delivery calls.
next_seen(seen, candidate) ==
    IF candidate = EmptyId \/ candidate \in Range(seen) THEN seen
    ELSE Append(seen, candidate)

RECURSIVE seen_after(_, _)
seen_after(seen, items) ==
    IF items = <<>> THEN seen
    ELSE seen_after(next_seen(seen, Head(items)), Tail(items))

\* _handle_message on bridge.delivery_receipt: the ids on_delivery is called
\* with for one payload, in order.
delivered_ids(receipt) ==
    IF receipt.chat_id = "-" THEN <<>>
    ELSE seen_after(IF receipt.provider_message_id = EmptyId THEN <<>>
                    ELSE <<receipt.provider_message_id>>,
                    receipt.provider_message_ids)

\* register_outbound_provider_id
register_outbound_provider_id(led, provider_message_id, chat_id) ==
    IF provider_message_id = EmptyId THEN led
    ELSE insert_ledger(led, provider_message_id, "outbound", chat_id)

RECURSIVE register_all(_, _, _)
register_all(led, ids, chat_id) ==
    IF ids = <<>> THEN led
    ELSE register_all(register_outbound_provider_id(led, Head(ids), chat_id),
                      Tail(ids), chat_id)

\* send_outbound: without a socket in _ws the message is dropped; with one it
\* is sent, and sending on a socket that was closed raises.
send_outbound(ws) ==
    CASE ws = "none" -> "dropped"
      [] ws = "open" -> "sent"
      [] ws = "closed" -> "raised"

\* The run_forever loop after run_forever was called: _running is set, the
\* loop waits in websockets.connect, with no socket yet and no envelope read.
NewBridge ==
    [running |-> TRUE,
     conn |-> "connecting", ws |-> "none", received |-> 0, event |-> "-",
     payloads |-> <<>>, dispatched |-> <<>>, raised |-> FALSE,
     receipt |-> NoReceipt, deliveries |-> <<>>, send |-> "-"]

\* --------------------------------------------------------------- scheduler
\* The when strings of a job: "weekly" is a recurring form such as every monday
\* at 8:00, "date" is a full date, "yearless" is a day without its year, which
\* dateutil completes from the day it parses on, so that it parses on some days
\* (Feb 29 in a leap year) and not on others.
Whens == {"weekly", "date", "yearless"}

\* _parse_trigger's kind is "date" for everything but the recurring forms; a
\* trigger is installed with one_time = (kind == "date").
one_time(when) == when # "weekly"

\* SchedulerTool._parse_trigger: does the string give a trigger on this day.
parse_trigger(when, leap) == when \in {"weekly", "date"} \/ (when = "yearless" /\ leap)

NotRestored == [loaded |-> 0, failed |-> 0, boots |-> 0, leap |-> FALSE]

\* restore_jobs, the body of its loop, with a failed row left uncounted.
restore_row_uncounted(acc, row, leap) ==
    IF parse_trigger(row.when, leap)
    THEN [acc EXCEPT !.triggers = @ \cup {row.job_id}, !.loaded = @ + 1,
                     !.rows = Append(@, [row EXCEPT !.next_run_at = 1])]
    ELSE [acc EXCEPT !.rows = Append(@, row)]

\* restore_jobs, the body of its loop: add_job under the row's job_id with
\* replace_existing and the row's next_run_at set to the new trigger's first
\* run, or failed += 1 when the string does not parse.
restore_row(acc, row, leap) ==
    IF parse_trigger(row.when, leap)
    THEN [acc EXCEPT !.triggers = @ \cup {row.job_id}, !.loaded = @ + 1,
                     !.rows = Append(@, [row EXCEPT !.next_run_at = 1])]
    ELSE [acc EXCEPT !.failed = @ + 1, !.rows = Append(@, row)]

RECURSIVE restore_jobs(_, _, _)
\* restore_jobs: the loop over the rows of list_jobs().
restore_jobs(rows, leap, acc) ==
    IF rows = <<>> THEN acc
    ELSE restore_jobs(Tail(rows), leap, restore_row(acc, Head(rows), leap))

\* MemoryStore: deque(maxlen=session_window_turns).append(turn)
append_turn_unbounded(sess, chat_id, turn, maxlen) ==
    [sess EXCEPT ![chat_id] = Append(@, turn)]

append_turn(sess, chat_id, turn, maxlen) ==
    [sess EXCEPT ![chat_id] =
        IF maxlen = 0 THEN @
        ELSE IF Len(@) = maxlen THEN Append(Tail(@), turn)
        ELSE Append(@, turn)]

Chats == {CliChat, WaChat}

\* main: the two channel loops wait for their first message, no handler and
\* no scheduler emission is running.  A coroutine is known by the suspension
\* point it waits at.
NewLoops ==
    [pos |-> [ch \in Channels |-> "read"],
     running |-> [ch \in Channels |-> <<>>],
     awaited |-> 0,
     emitting |-> <<>>,
     emitted |-> 0]

\* CLIChannel.run before its first line.
NewConsole == [pos |-> "read", lines |-> <<>>, inbounds |-> <<>>, uuids |-> 0]

\* No scheduler tool call yet.
NotRun == [action |-> "-", inbound_chat |-> NoChat, chat_id |-> NoChat,
           job_id |-> 0, job_chat |-> NoChat, ok |-> FALSE, listed |-> <<>>]

\* The empty store and the idle channels.
InitStore ==
    /\ now = 0
    /\ ledger = <<>>
    /\ messages = {}
    /\ pending = <<>>
    /\ redacted_log = NoLine
    /\ wire = <<>>
    /\ calls = [ch \in Channels |-> NewCall]
    /\ handled = 0
    /\ claimLog = [i \in InboundIds |-> <<>>]
    /\ userRows = [i \in InboundIds |-> 0]
    /\ reminders = 0
    /\ receipts = 0
    /\ faults = 0
    /\ payload = NoPayload
    /\ parsed = Rejected
    /\ session = [c \in Chats |-> <<>>]
    /\ arrived = [c \in Chats |-> 0]
    /\ jobs = <<>>
    /\ triggers = {}
    /\ scheduled = 0
    /\ restored = NotRestored
    /\ next_run_time = [j \in 1..MaxJobs |-> 0]
    /\ fires = <<>>
    /\ bridge = NewBridge
    /\ filtered = NoIdentities
    /\ loops = NewLoops
    /\ console = NewConsole
    /\ ran = NotRun

\* Everything but the size of the session window.
InitLoop == agent_max_steps \in StepConfigs /\ InitStore

\* Settings.session_window_turns: int = 20
Init == InitLoop /\ session_window_turns = 20

\* A loop configured with room for two tool steps and an answer.
InitSteps ==
    agent_max_steps = MaxLongSteps /\ InitStore /\ session_window_turns = 20

\* Small session windows, the empty one included.
InitWindow == InitLoop /\ session_window_turns \in 0..MaxWindow

Max(a, b) == IF a >= b THEN a ELSE b

\* range(1, max(1, settings.agent_max_steps) + 1)
StepLimitInclusive == Max(1, agent_max_steps) + 1
StepLimit == Max(1, agent_max_steps)

InFlight(ch) == calls[ch].pc \in {"claimed", "llm", "tool", "send"}

\* No coroutine is inside a synchronous segment: between the claim and the
\* user row, or between its last await and the return to its channel loop.
NoneMidway == \A ch \in Channels : calls[ch].pc \notin {"claimed", "done", "crashed"}

\* Provider ids are named in the order they first appear.
Seen(id) ==
    \/ id \in DOMAIN ledger
    \/ \E ch \in Channels : calls[ch].pc # "idle" /\ calls[ch].id = id

Nameable(id) == id[2] = 1 \/ Seen(ProviderId(id[2] - 1))

\* The audit events whose payload carries the number of the step.
StepEvents == {"loop.step", FailedStep, "loop.tool_observation"}

\* An audit_log that returns its rows latest first.
insert_audit_first(rec, event) ==
    [rec EXCEPT !.audit = <<event>> \o @,
                !.audit_step = <<IF event \in StepEvents THEN rec.step ELSE 0>> \o @]

\* db.insert_audit under the call's trace_id; audit_step is payload["step"],
\* 0 for a payload without it.
insert_audit(rec, event) ==
    [rec EXCEPT !.audit = Append(@, event),
                !.audit_step = Append(@, IF event \in StepEvents THEN rec.step ELSE 0)]

\* ------------------------------------------------------- outbound messages
FallbackText == Plain
CancelText == Plain
MaxStepsText == Plain
UsageText == Plain

\* _request_confirmation: f"Confirmation required for {tool_name} ... Action ID: {action_id}"
ConfirmationText(tool_name, action_id) ==
    Cat(Cat(Cat(Plain, tool_name), Plain), action_id)

\* _send_tool_result: the redacted content.
ToolResultText(content) == redact(content)

\* _send_tool_result: on the CLI the attachment paths follow the redacted content.
ResultText(channel, content, artifacts) ==
    IF channel = "cli" /\ artifacts THEN Cat(ToolResultText(content), Plain)
    ELSE ToolResultText(content)

\* _send_text / _send_tool_result: a fresh OutboundMessage awaiting its channel.
Sending(rec, kind, text) ==
    [rec EXCEPT !.pc = "send", !.out = kind, !.otext = text]

\* The handler returns.
Finished(rec) ==
    [rec EXCEPT !.pc = "done", !.out = "-", !.otext = <<>>, !.inb = NoInb,
                !.ctx = "-", !.act = 0, !.step = 0,
                !.step_messages = <<>>, !.raw_content = NoContent]

\* handle_inbound, the except branch: the inbound.error audit (which may itself
\* fail), then one attempt to send the fallback text.
EnterExcept(ch, rec) ==
    \E auditFails \in BOOLEAN :
        /\ faults' = faults + 1
        /\ calls' = [calls EXCEPT ![ch] =
              Sending([(IF auditFails THEN rec ELSE insert_audit(rec, "inbound.error"))
                          EXCEPT !.exc = TRUE, !.raised = TRUE,
                                 !.attempts = @ + 1, !.inb = NoInb,
                                 !.ctx = "-", !.act = 0, !.step = 0,
                                 !.step_messages = <<>>,
                                 !.raw_content = NoContent],
                      "fallback", FallbackText)]

RaiseAgain(ch, rec) == EnterExcept(ch, rec)

\* An exception raised by the step: inside the except branch it is swallowed,
\* anywhere else it enters the except branch.
Raise(ch, rec) ==
    IF rec.exc
    THEN /\ calls' = [calls EXCEPT ![ch] = Finished(rec)]
         /\ faults' = faults
    ELSE /\ faults < MaxFaults
         /\ EnterExcept(ch, rec)

\* A loop that returns without a word when its range is exhausted.
ContinueLoopSilent(ch, rec) ==
    IF rec.step < StepLimit
    THEN \/ /\ calls' = [calls EXCEPT ![ch] =
                  [rec EXCEPT !.pc = "llm", !.step = @ + 1, !.llm = @ + 1,
                              !.ctx = "react", !.react = TRUE, !.out = "-",
                              !.otext = <<>>]]
            /\ faults' = faults
         \/ Raise(ch, [rec EXCEPT !.react = TRUE])
    ELSE /\ calls' = [calls EXCEPT ![ch] =
               Finished(insert_audit(rec, "loop.max_steps_reached"))]
         /\ faults' = faults

\* _run_react_loop: the head of the for loop.  The next step builds the prompt
\* (ContextBuilder raises when system.md is missing) and calls complete_json;
\* an exhausted range sends the max-steps text.
ContinueLoop(ch, rec) ==
    IF rec.step < StepLimit
    THEN \/ /\ calls' = [calls EXCEPT ![ch] =
                  [rec EXCEPT !.pc = "llm", !.step = @ + 1, !.llm = @ + 1,
                              !.ctx = "react", !.react = TRUE, !.out = "-",
                              !.otext = <<>>]]
            /\ faults' = faults
         \/ Raise(ch, [rec EXCEPT !.react = TRUE])
    ELSE /\ calls' = [calls EXCEPT ![ch] =
               Sending(insert_audit(rec, "loop.max_steps_reached"),
                       "maxsteps", MaxStepsText)]
         /\ faults' = faults

\* --------------------------------------------------------- handle_inbound
\* Past the channel filter the three identity flags are not read again.
PastFilter(inb) ==
    [inb EXCEPT !.is_self_chat = TRUE, !.is_from_me = FALSE,
                !.sender_matches = TRUE]

\* handle_inbound with the claim made ahead of the channel filter.
HandleInboundClaimsFirst(inb) ==
    /\ calls[inb.channel].pc = "idle"
    /\ NoneMidway
    /\ ValidInbound(inb)
    /\ Nameable(inb.id)
    /\ handled' = handled + 1
    /\ LET ch == inb.channel
           rec == [NewCall EXCEPT !.id = inb.id,
                       !.echo = ledger_contains(ledger, inb.id, "outbound")]
           got == claim_ledger(ledger, inb.id, "inbound", ChatOf(ch))
       IN  \/ /\ ledger' = got.led
              /\ claimLog' = [claimLog EXCEPT ![inb.id] = Append(@, got.claimed)]
              /\ calls' = [calls EXCEPT ![ch] =
                    IF ch = "whatsapp" /\ ~WaAdmitted(inb)
                    THEN Finished(rec)
                    ELSE IF got.claimed
                    THEN [rec EXCEPT !.pc = "claimed", !.proceeded = TRUE,
                                     !.inb = PastFilter(inb)]
                    ELSE Finished([rec EXCEPT !.dropped = TRUE])]
              /\ faults' = faults
           \/ /\ Raise(ch, rec)
              /\ UNCHANGED <<ledger, claimLog>>
    /\ Silent
    /\ UNCHANGED <<agent_max_steps, now, messages, pending, userRows, reminders, receipts>>
    /\ UNCHANGED offpath

\* handle_inbound from the call to the ledger claim: the channel filter, which
\* reads the message and returns, then claim_ledger, which may raise.
handle_inbound(inb) ==
    /\ calls[inb.channel].pc = "idle"
    /\ NoneMidway
    /\ ValidInbound(inb)
    /\ Nameable(inb.id)
    /\ handled' = handled + 1
    /\ LET ch == inb.channel
           rec == [NewCall EXCEPT !.id = inb.id,
                       !.echo = ledger_contains(ledger, inb.id, "outbound")]
           got == claim_ledger(ledger, inb.id, "inbound", ChatOf(ch))
       IN  \/ IF ch = "whatsapp" /\ ~WaAdmitted(inb)
              THEN /\ calls' = [calls EXCEPT ![ch] = Finished(rec)]
                   /\ UNCHANGED <<ledger, claimLog, faults>>
              ELSE /\ ledger' = got.led
                   /\ claimLog' = [claimLog EXCEPT ![inb.id] = Append(@, got.claimed)]
                   /\ calls' = [calls EXCEPT ![ch] =
                         IF got.claimed
                         THEN [rec EXCEPT !.pc = "claimed", !.proceeded = TRUE,
                                          !.inb = PastFilter(inb)]
                         ELSE Finished([rec EXCEPT !.dropped = TRUE])]
                   /\ faults' = faults
           \/ /\ ~(ch = "whatsapp" /\ ~WaAdmitted(inb))
              /\ Raise(ch, rec)
              /\ UNCHANGED <<ledger, claimLog>>
    /\ Silent
    /\ UNCHANGED <<agent_max_steps, now, messages, pending, userRows, reminders, receipts>>

\* A message arrives on a channel.
HandleInbound(inb) == handle_inbound(inb) /\ UNCHANGED offpath

\* A message arrives on the WhatsApp channel with the sender_id and chat_id
\* the bridge gave it.
HandleInboundFrom(inb, sender_id, chat_id) ==
    /\ inb.channel = "whatsapp"
    /\ inb.sender_matches = wa_sender_matches_chat(sender_id, chat_id)
    /\ handle_inbound(inb)
    /\ filtered' = [id |-> inb.id, sender_id |-> sender_id, chat_id |-> chat_id,
                    is_self_chat |-> inb.is_self_chat, is_from_me |-> inb.is_from_me]
    /\ UNCHANGED <<payload, parsed, session_window_turns, session, arrived,
                   jobs, triggers, scheduled, restored, next_run_time, fires,
                   bridge, aside>>

\* _invoke_tool: the call waits for tools.execute.
Invoking(rec, ctx, act, call_args) ==
    [rec EXCEPT !.pc = "tool", !.ctx = ctx, !.act = act, !.args = call_args,
                !.tools = @ + 1, !.out = "-", !.otext = <<>>]

\* _parse_tool_command, then the ReAct loop when it is no direct command.
Route(ch, inb, rec) ==
    IF parse_tool_command(inb).type = "tool"
    THEN /\ calls' = [calls EXCEPT ![ch] =
               Invoking(rec, "direct", 0,
                        invoke_tool(parse_tool_command(inb).args, ChatOf(ch), FALSE))]
         /\ faults' = faults
    ELSE IF parse_tool_command(inb).type = "response"
    THEN /\ calls' = [calls EXCEPT ![ch] = Sending(rec, "usage", redact(UsageText))]
         /\ faults' = faults
    ELSE ContinueLoop(ch, rec)

\* _execute_tool / _run_react_loop: args={**args, "chat_id": inbound.chat_id};
\* the arguments kept for the resumed call are the ones the command or the
\* decision gave, without the confirmed flag of the call.
RequestArgs(call_args, chat_id) == [chat_id |-> chat_id, confirmed |-> FALSE]

\* PolicyEngine.create_pending_action: a new row, status 'pending', expiring
\* ttl_minutes from now.
create_pending_action(pend, chat_id, proposed_args) ==
    Append(pend, [chat_id |-> chat_id, status |-> "pending",
                  expires_at |-> now + ttl_minutes, history |-> <<>>,
                  execs |-> 0, proposed_args |-> proposed_args])

\* resolve_pending_action_from_text: expires_at < now
NeverExpired(expires_at, t) == FALSE
Expired(expires_at, t) == expires_at < t

\* PolicyEngine.resolve_pending_action_from_text and what handle_inbound does
\* with its answer.
Resolve(ch, inb, rec) ==
    LET decision == parse_confirmation(inb.kind)
        i == get_latest_pending_action(pending, ChatOf(ch))
    IN  IF decision = "none" \/ i = 0
        THEN /\ pending' = pending
             /\ Route(ch, inb, rec)
        ELSE IF Expired(pending[i].expires_at, now)
        THEN /\ pending' = update_pending_status(pending, i, "expired")
             /\ Route(ch, inb, rec)
        ELSE IF decision = "approved"
        THEN /\ pending' = [update_pending_status(pending, i, "approved")
                               EXCEPT ![i].execs = @ + 1]
             /\ calls' = [calls EXCEPT ![ch] =
                   Invoking(rec, "confirmed", i,
                            invoke_tool(pending[i].proposed_args, ChatOf(ch), TRUE))]
             /\ faults' = faults
        ELSE /\ pending' = update_pending_status(pending, i, "denied")
             /\ calls' = [calls EXCEPT ![ch] = Sending(rec, "cancel", CancelText)]
             /\ faults' = faults

\* handle_inbound without the empty-payload guard.
EveryPayload(inb) == FALSE

\* handle_inbound, the empty-payload guard.
EmptyPayload(inb) == inb.channel = "whatsapp" /\ inb.kind = "blank" /\ ~inb.media

\* handle_inbound after a successful claim: the empty-payload guard, the user
\* row, the log line, confirmation resolution and routing, up to the first await.
Persist(ch) ==
    /\ calls[ch].pc = "claimed"
    /\ LET rec == calls[ch]
           inb == rec.inb
           kept == [rec EXCEPT !.nonempty = TRUE, !.inb = NoInb]
       IN  IF EmptyPayload(inb)
           THEN /\ calls' = [calls EXCEPT ![ch] = Finished(rec)]
                /\ redacted_log' = NoLine
                /\ UNCHANGED <<messages, userRows, pending, faults>>
           ELSE \/ /\ Raise(ch, kept)
                   /\ redacted_log' = NoLine
                   /\ UNCHANGED <<messages, userRows, pending>>
                \/ /\ messages' = insert_message(messages, inb.id, "user",
                                                 redact(effective_user_text(inb)))
                   /\ userRows' = [userRows EXCEPT ![inb.id] = @ + 1]
                   /\ redacted_log' = write_redacted_log("inbound.message", RawText(inb))
                   /\ Resolve(ch, inb, [kept EXCEPT !.persisted = TRUE])
    /\ wire' = <<>>
    /\ UNCHANGED <<agent_max_steps, now, ledger, handled, claimLog, reminders, receipts>>
    /\ UNCHANGED offpath

\* _run_react_loop, the end of a tool step: the loop.tool_observation audit and
\* the two step messages.
Observed(rec) ==
    [insert_audit(rec, "loop.tool_observation")
        EXCEPT !.step_messages = @ \o format_observation(rec.ok)]

\* _run_react_loop: complete_json has returned.  The router never raises: a
\* failed call and an unparsable decision are both an error for this step.
LLMReturn(ch, T, A, R) ==
    /\ calls[ch].pc = "llm"
    /\ NoneMidway
    /\ LET rec == insert_audit([calls[ch] EXCEPT !.raw_content = NoContent],
                               "loop.step")
       IN  \/ \E raw_content \in R :
                 ContinueLoop(ch,
                     [insert_audit(calls[ch], FailedStep)
                         EXCEPT !.raw_content = raw_content,
                                !.step_messages = @ \o Correction(raw_content)])
           \/ \E t \in T :
                 /\ calls' = [calls EXCEPT ![ch] = Sending(rec, "response", redact(t))]
                 /\ faults' = faults
           \/ \E arg_chat \in A :
                 /\ calls' = [calls EXCEPT ![ch] =
                       Invoking(rec, "react", 0,
                                invoke_tool([NoArgs EXCEPT !.chat_id = arg_chat],
                                            ChatOf(ch), FALSE))]
                 /\ faults' = faults
    /\ Silent
    /\ UNCHANGED <<agent_max_steps, now, ledger, messages, pending, handled,
                   claimLog, userRows, reminders, receipts>>
    /\ UNCHANGED offpath

\* tools.execute has returned (or raised): _execute_tool for a direct or a
\* confirmed call, the body of the ReAct step for a call decided by the model.
ToolResultReturn(ch, T, K) ==
    /\ calls[ch].pc = "tool"
    /\ NoneMidway
    /\ LET got == [calls[ch] EXCEPT !.args = NoArgs]
       IN  \/ /\ Raise(ch, got)
              /\ pending' = pending
           \/ \E action_id \in T :
                 /\ pending' = create_pending_action(pending, ChatOf(ch),
                                    RequestArgs(calls[ch].args, ChatOf(ch)))
                 /\ calls' = [calls EXCEPT ![ch] =
                       Sending(got, "confirm", ConfirmationText(Plain, action_id))]
                 /\ faults' = faults
           \/ \E content \in T, artifacts \in BOOLEAN, ok \in K :
                 /\ pending' = pending
                 /\ LET rec == [got EXCEPT !.ok = ok]
                    IN
                    IF rec.ctx = "react"
                    THEN IF artifacts
                         THEN /\ calls' = [calls EXCEPT ![ch] =
                                    Sending(insert_audit(rec, "tool.execute"),
                                            "artifact", ResultText(ch, content, TRUE))]
                              /\ faults' = faults
                         ELSE ContinueLoop(ch,
                                  Observed(insert_audit(rec, "tool.execute")))
                    ELSE /\ calls' = [calls EXCEPT ![ch] =
                               Sending(rec, "toolresult",
                                       ResultText(ch, content, artifacts))]
                         /\ faults' = faults
    /\ Silent
    /\ UNCHANGED <<agent_max_steps, now, ledger, messages, handled, claimLog,
                   userRows, reminders, receipts>>
    /\ UNCHANGED offpath

\* The same with tools that report success.
ToolReturn(ch, T) == ToolResultReturn(ch, T, {TRUE})

\* The caller goes on with its loop after the confirmation prompt as well.
AfterSendContinues(ch, rec) ==
    IF rec.out \in {"artifact", "confirm"}
    THEN ContinueLoop(ch, insert_audit(rec, "loop.tool_observation"))
    ELSE IF rec.out = "toolresult"
    THEN /\ calls' = [calls EXCEPT ![ch] = Finished(insert_audit(rec, "tool.execute"))]
         /\ faults' = faults
    ELSE /\ calls' = [calls EXCEPT ![ch] = Finished(rec)]
         /\ faults' = faults

\* What follows a completed _send in the caller.
AfterSend(ch, rec) ==
    IF rec.out = "artifact"
    THEN ContinueLoop(ch, Observed(rec))
    ELSE IF rec.out = "toolresult"
    THEN /\ calls' = [calls EXCEPT ![ch] = Finished(insert_audit(rec, "tool.execute"))]
         /\ faults' = faults
    ELSE /\ calls' = [calls EXCEPT ![ch] = Finished(rec)]
         /\ faults' = faults

\* _send stores message.text as it is.
StoredText(text) == text

\* _send: insert_ledger(message.id, "outbound", ...) on the WhatsApp branch only.
SendRecords(led, channel, oid) ==
    IF channel = "whatsapp" THEN insert_ledger(led, oid, "outbound", WaChat) ELSE led

\* _send with the records written ahead of the hand-off.
SendReturnPersistsFirst(ch) ==
    /\ calls[ch].pc = "send"
    /\ NoneMidway
    /\ LET rec == calls[ch]
           handed == [rec EXCEPT !.sent = Append(@, rec.out)]
       IN  /\ ledger' = SendRecords(ledger, ch, uuid4)
           /\ redacted_log' = write_redacted_log("outbound.message", rec.otext)
           /\ messages' = insert_message(messages, uuid4, "assistant",
                                         StoredText(rec.otext))
           /\ \/ /\ ch = "whatsapp"
                 /\ Raise(ch, rec)
                 /\ wire' = <<>>
              \/ /\ wire' = rec.otext
                 /\ AfterSend(ch, handed)
    /\ UNCHANGED <<agent_max_steps, now, pending, handled, claimLog, userRows,
                   reminders, receipts>>
    /\ UNCHANGED offpath

\* _send: the channel hand-off has returned or raised; then the ledger row,
\* the log line and the assistant row.
SendReturn(ch) ==
    /\ calls[ch].pc = "send"
    /\ NoneMidway
    /\ LET rec == calls[ch]
           handed == [rec EXCEPT !.sent = Append(@, rec.out)]
       IN  \/ /\ ch = "whatsapp"
              /\ Raise(ch, rec)
              /\ Silent
              /\ UNCHANGED <<ledger, messages>>
           \/ /\ wire' = rec.otext
              /\ ledger' = SendRecords(ledger, ch, uuid4)
              /\ redacted_log' = write_redacted_log("outbound.message", rec.otext)
              /\ \/ /\ Raise(ch, handed)
                    /\ messages' = messages
                 \/ /\ messages' = insert_message(messages, uuid4, "assistant",
                                                  StoredText(rec.otext))
                    /\ AfterSend(ch, handed)
    /\ UNCHANGED <<agent_max_steps, now, pending, handled, claimLog, userRows,
                   reminders, receipts>>
    /\ UNCHANGED offpath

\* BridgeClient.run_forever / CLIChannel.run: the awaited handler has returned
\* and the loop waits for the next message.
Return(ch) ==
    /\ calls[ch].pc = "done"
    /\ calls' = [calls EXCEPT ![ch] = NewCall]
    /\ Silent
    /\ UNCHANGED <<agent_max_steps, now, ledger, messages, pending, handled,
                   claimLog, userRows, reminders, receipts, faults>>
    /\ UNCHANGED offpath

\* register_outbound_provider_id, called by the bridge client for a delivery
\* receipt that carries a provider message id.  BridgeClient.run_forever reads
\* the receipt in the loop that also awaits the WhatsApp handler.
RegisterOutbound(i) ==
    /\ NoneMidway
    /\ calls["whatsapp"].pc = "idle"
    /\ Nameable(ProviderId(i))
    /\ receipts < MaxReceipts
    /\ receipts' = receipts + 1
    /\ ledger' = insert_ledger(ledger, ProviderId(i), "outbound", WaChat)
    /\ Silent
    /\ UNCHANGED <<agent_max_steps, now, messages, pending, calls, handled,
                   claimLog, userRows, reminders, faults>>
    /\ UNCHANGED offpath

\* emit_scheduler_message: f"[Reminder] {text}"
ReminderText(text) == Cat(Plain, text)

\* emit_scheduler_message: the reminder goes through _send as it is.
emit_scheduler_message(chat_id, text) ==
    /\ NoneMidway
    /\ reminders < MaxReminders
    /\ reminders' = reminders + 1
    /\ LET channel == IF chat_id = CliChat THEN "cli" ELSE "whatsapp"
       IN  /\ wire' = ReminderText(text)
           /\ ledger' = SendRecords(ledger, channel, uuid4)
           /\ redacted_log' = write_redacted_log("outbound.message", ReminderText(text))
           /\ messages' = insert_message(messages, uuid4, "assistant",
                                         StoredText(ReminderText(text)))
    /\ UNCHANGED <<agent_max_steps, now, pending, calls, handled, claimLog,
                   userRows, receipts, faults>>

\* A reminder sent while the jobs and the scheduler stay as they are.
EmitSchedulerMessage(chat_id, text) ==
    emit_scheduler_message(chat_id, text) /\ UNCHANGED offpath

\* The clock advances while an action waits for its answer.  The clock is read
\* when a pending action is created and when an answer is resolved; it is
\* advanced between two handlers.
Tick ==
    /\ \A ch \in Channels : calls[ch].pc = "idle"
    /\ now < MaxTime
    /\ \E i \in DOMAIN pending : pending[i].status = "pending"
    /\ now' = now + TickMinutes
    /\ Silent
    /\ UNCHANGED <<agent_max_steps, ledger, messages, pending, calls, handled,
                   claimLog, userRows, reminders, receipts, faults>>
    /\ UNCHANGED offpath

\* A coroutine lost with its process: what it had claimed and stored.
Killed(rec) ==
    [NewCall EXCEPT !.pc = "crashed", !.id = rec.id, !.proceeded = rec.proceeded,
                    !.nonempty = IF rec.pc = "claimed" THEN ~EmptyPayload(rec.inb)
                                 ELSE rec.nonempty,
                    !.persisted = rec.persisted]

\* The process is killed: every coroutine is lost, the store stays.
Crash ==
    /\ \E ch \in Channels : InFlight(ch)
    /\ \A ch \in Channels : calls[ch].pc \notin {"done", "crashed"}
    /\ calls' = [ch \in Channels |->
                    IF InFlight(ch) THEN Killed(calls[ch]) ELSE calls[ch]]
    /\ Silent
    /\ UNCHANGED <<agent_max_steps, now, ledger, messages, pending, handled,
                   claimLog, userRows, reminders, receipts, faults>>
    /\ UNCHANGED offpath

\* The process is started again on the same store.
Restart ==
    /\ \E ch \in Channels : calls[ch].pc = "crashed"
    /\ calls' = [ch \in Channels |-> NewCall]
    /\ Silent
    /\ UNCHANGED <<agent_max_steps, now, ledger, messages, pending, handled,
                   claimLog, userRows, reminders, receipts, faults>>
    /\ UNCHANGED offpath

\* ------------------------------------------------------------ specifications
\* Inbound handling with ordinary texts.
Next ==
    \/ \E inb \in Inbounds(MaxCalls, {Plain}) :
          handled < MaxCalls /\ HandleInbound(inb)
    \/ \E ch \in Channels : Persist(ch)
    \/ \E ch \in Channels : LLMReturn(ch, {Plain}, {NoChat}, {NoContent})
    \/ \E ch \in Channels : ToolReturn(ch, {Plain})
    \/ \E ch \in Channels : SendReturn(ch)
    \/ \E ch \in Channels : Return(ch)
    \/ \E i \in 1..MaxCalls : RegisterOutbound(i)
    \/ Tick
    \/ Crash
    \/ Restart

Spec == Init /\ [][Next]_vars

\* A conversation of direct tool commands and YES/NO answers: each message
\* carries a new provider id and arrives when the handler of the one before
\* has returned.
NextSession ==
    \/ \E inb \in Inbounds(MaxSessionCalls, {Plain}) :
          /\ handled < MaxSessionCalls
          /\ inb.id = ProviderId(handled + 1)
          /\ inb.kind \in {"tool", "yes", "no"}
          /\ \A ch \in Channels : calls[ch].pc = "idle"
          /\ HandleInbound(inb)
    \/ \E ch \in Channels : Persist(ch)
    \/ \E ch \in Channels : LLMReturn(ch, {Plain}, {NoChat}, {NoContent})
    \/ \E ch \in Channels : ToolReturn(ch, {Plain})
    \/ \E ch \in Channels : SendReturn(ch)
    \/ \E ch \in Channels : Return(ch)
    \/ Tick

SpecSession == Init /\ [][NextSession]_vars

\* One inbound and the scheduler's reminders, with texts that may hold a
\* substring the redactor masks.
NextRedaction ==
    \/ \E inb \in Inbounds(1, InputTexts) : handled < 1 /\ HandleInbound(inb)
    \/ \E ch \in Channels : Persist(ch)
    \/ \E ch \in Channels : LLMReturn(ch, InputTexts, {NoChat}, {NoContent})
    \/ \E ch \in Channels : ToolReturn(ch, InputTexts)
    \/ \E ch \in Channels : SendReturn(ch)
    \/ \E ch \in Channels : Return(ch)
    \/ \E chat_id \in {CliChat, WaChat}, text \in InputTexts :
          EmitSchedulerMessage(chat_id, text)

SpecRedaction == Init /\ [][NextRedaction]_vars

\* A conversation of commands, ordinary messages and YES answers in which the
\* command JSON and the model's decisions may name a chat of their own.
NextCommands ==
    \/ \E inb \in Inbounds(MaxCalls, {Plain}),
          k \in CommandKinds \cup {"tool", "usage", "yes", "plain"},
          a \in ArgChats :
          /\ handled < MaxCalls
          /\ inb.id = ProviderId(handled + 1)
          /\ inb.kind = "plain" /\ ~inb.media
          /\ a # NoChat => k = "tool"
          /\ \A ch \in Channels : calls[ch].pc = "idle"
          /\ HandleInbound([inb EXCEPT !.kind = k, !.arg_chat = a])
    \/ \E ch \in Channels : Persist(ch)
    \/ \E ch \in Channels : LLMReturn(ch, {Plain}, ArgChats, {NoContent})
    \/ \E ch \in Channels : ToolReturn(ch, {Plain})
    \/ \E ch \in Channels : SendReturn(ch)
    \/ \E ch \in Channels : Return(ch)

SpecCommands == Init /\ [][NextCommands]_vars

\* One ordinary message in the ReAct loop, with every kind of model output.
NextReact ==
    \/ \E inb \in Inbounds(1, {Plain}) :
          handled < 1 /\ inb.kind = "plain" /\ HandleInbound(inb)
    \/ \E ch \in Channels : Persist(ch)
    \/ \E ch \in Channels : LLMReturn(ch, {Plain}, {NoChat}, RawContents)
    \/ \E ch \in Channels : ToolReturn(ch, {Plain})
    \/ \E ch \in Channels : SendReturn(ch)
    \/ \E ch \in Channels : Return(ch)

SpecReact == Init /\ [][NextReact]_vars

\* Commands, ordinary messages and YES answers, one after the other, with
\* tools whose result may have ok = false.
NextToolFailure ==
    \/ \E inb \in Inbounds(MaxCalls, {Plain}) :
          /\ handled < MaxCalls
          /\ inb.id = ProviderId(handled + 1)
          /\ inb.kind \in {"plain", "tool", "yes"}
          /\ \A ch \in Channels : calls[ch].pc = "idle"
          /\ HandleInbound(inb)
    \/ \E ch \in Channels : Persist(ch)
    \/ \E ch \in Channels : LLMReturn(ch, {Plain}, {NoChat}, {NoContent})
    \/ \E ch \in Channels : ToolResultReturn(ch, {Plain}, BOOLEAN)
    \/ \E ch \in Channels : SendReturn(ch)
    \/ \E ch \in Channels : Return(ch)

SpecToolFailure == Init /\ [][NextToolFailure]_vars

\* Tool commands and YES/NO answers on both channels, each handled while the
\* handler of the other channel may be waiting.
NextCross ==
    \/ \E inb \in Inbounds(MaxSessionCalls, {Plain}) :
          /\ handled < MaxSessionCalls
          /\ inb.id = ProviderId(handled + 1)
          /\ inb.kind \in {"tool", "yes", "no"}
          /\ inb.is_self_chat /\ ~inb.is_from_me /\ inb.sender_matches
          /\ HandleInbound(inb)
    \/ \E ch \in Channels : Persist(ch)
    \/ \E ch \in Channels : LLMReturn(ch, {Plain}, {NoChat}, {NoContent})
    \/ \E ch \in Channels : ToolReturn(ch, {Plain})
    \/ \E ch \in Channels : SendReturn(ch)
    \/ \E ch \in Channels : Return(ch)

SpecCross == Init /\ [][NextCross]_vars

\* Two messages of every kind, one after the other, with an event loop that
\* resumes every handler whose LLM call, tool run or send has come back.
NextReplies ==
    \/ \E inb \in Inbounds(MaxCalls, {Plain}) :
          /\ handled < MaxCalls
          /\ inb.id = ProviderId(handled + 1)
          /\ inb.is_self_chat /\ ~inb.is_from_me /\ inb.sender_matches
          /\ ~inb.media
          /\ \A ch \in Channels : calls[ch].pc = "idle"
          /\ HandleInbound(inb)
    \/ \E ch \in Channels : Persist(ch)
    \/ \E ch \in Channels : LLMReturn(ch, {Plain}, {NoChat}, {NoContent})
    \/ \E ch \in Channels : ToolReturn(ch, {Plain})
    \/ \E ch \in Channels : SendReturn(ch)
    \/ \E ch \in Channels : Return(ch)

SpecReplies ==
    /\ Init /\ [][NextReplies]_vars
    /\ \A ch \in Channels :
          /\ WF_vars(Persist(ch))
          /\ WF_vars(LLMReturn(ch, {Plain}, {NoChat}, {NoContent}))
          /\ WF_vars(ToolReturn(ch, {Plain}))
          /\ WF_vars(SendReturn(ch))

\* The same message with agent_max_steps = 3.
SpecSteps == InitSteps /\ [][NextReact]_vars

\* One ordinary message on either channel, answered by the model or by a tool
\* in plain text or in Markdown.
NextFormat ==
    \/ \E inb \in Inbounds(1, {Plain}) :
          handled < 1 /\ inb.kind = "plain" /\ HandleInbound(inb)
    \/ \E ch \in Channels : Persist(ch)
    \/ \E ch \in Channels : LLMReturn(ch, {Plain, Markdown}, {NoChat}, {NoContent})
    \/ \E ch \in Channels : ToolReturn(ch, {Plain, Markdown})
    \/ \E ch \in Channels : SendReturn(ch)
    \/ \E ch \in Channels : Return(ch)

SpecFormat == Init /\ [][NextFormat]_vars

\* One WhatsApp message with any identities and flags, up to its user row or
\* its return.
NextFilter ==
    \/ /\ handled < 1
       /\ \E sender_id \in Identities, chat_id \in Identities,
             self \in BOOLEAN, me \in BOOLEAN :
             HandleInboundFrom(
                 [NoInb EXCEPT !.id = ProviderId(1), !.channel = "whatsapp",
                               !.kind = "plain", !.is_self_chat = self,
                               !.is_from_me = me,
                               !.sender_matches =
                                   wa_sender_matches_chat(sender_id, chat_id)],
                 sender_id, chat_id)
    \/ \E ch \in Channels : Persist(ch)
    \/ \E ch \in Channels : Return(ch)

SpecFilter == Init /\ [][NextFilter]_vars

\* parse_agent_decision applied to a model output.
ParseAgentDecision(p) ==
    /\ payload' = p
    /\ parsed' = parse_agent_decision(p)
    /\ UNCHANGED <<inpath, session_window_turns, session, arrived,
                   jobs, triggers, scheduled, restored, next_run_time, fires, bridge,
          filtered, aside>>

\* The decision parser over every shape of model output.
NextDecision == \E p \in Payloads : ParseAgentDecision(p)

SpecDecision == Init /\ [][NextDecision]_vars

\* MemoryStore.append_turn, as handle_inbound calls it for the user's turn and
\* _send for a reply or a reminder.  A turn is known by its role and its place
\* in the chat's arrivals.
AppendTurn(chat_id, role) ==
    /\ arrived[chat_id] < MaxTurns
    /\ arrived' = [arrived EXCEPT ![chat_id] = @ + 1]
    /\ session' = append_turn(session, chat_id,
                              [role |-> role, content |-> arrived[chat_id] + 1],
                              session_window_turns)
    /\ UNCHANGED <<inpath, payload, parsed, session_window_turns,
                   jobs, triggers, scheduled, restored, next_run_time, fires, bridge,
          filtered, aside>>

\* Turns of both roles arriving in both chats.
NextWindow ==
    \E chat_id \in Chats, role \in {"user", "assistant"} : AppendTurn(chat_id, role)

SpecWindow == InitWindow /\ [][NextWindow]_vars

\* SchedulerTool.run, action "schedule": a string that does not parse is
\* answered with an error; otherwise the trigger is installed under a new job
\* id and the row is written with the trigger's first run.
ScheduleJob(chat_id, when, leap) ==
    /\ scheduled < MaxJobs
    /\ IF parse_trigger(when, leap)
       THEN /\ scheduled' = scheduled + 1
            /\ triggers' = triggers \cup {scheduled + 1}
            /\ next_run_time' = [next_run_time EXCEPT ![scheduled + 1] = 1]
            /\ jobs' = Append(jobs, [job_id |-> scheduled + 1, chat_id |-> chat_id,
                                     when |-> when, next_run_at |-> 1])
       ELSE UNCHANGED <<scheduled, triggers, next_run_time, jobs>>
    /\ UNCHANGED <<inpath, payload, parsed, session_window_turns, session,
                   arrived, restored, fires, bridge, filtered, aside>>

\* SchedulerTool.run, action "cancel": the trigger and the row are removed.
CancelJob(job_id) ==
    /\ \E i \in DOMAIN jobs : jobs[i].job_id = job_id
    /\ triggers' = triggers \ {job_id}
    /\ next_run_time' = [next_run_time EXCEPT ![job_id] = 0]
    /\ jobs' = SelectSeq(jobs, LAMBDA row : row.job_id # job_id)
    /\ UNCHANGED <<inpath, payload, parsed, session_window_turns, session,
                   arrived, scheduled, restored, fires, bridge, filtered, aside>>

\* Database.get_job
get_job(rows, job_id) == SelectSeq(rows, LAMBDA row : row.job_id = job_id)

\* Database.update_job_spec_next_run, with the spec it was read with.
update_job_spec_next_run(rows, job_id, next_run_at) ==
    [i \in DOMAIN rows |->
        IF rows[i].job_id = job_id THEN [rows[i] EXCEPT !.next_run_at = next_run_at]
        ELSE rows[i]]

\* _job_wrapper after on_fire has returned: a one-shot fire deletes the row, a
\* recurring one writes the trigger's next run to the row if there is one.
job_wrapper(rows, job_id, once, next_run) ==
    IF once THEN SelectSeq(rows, LAMBDA row : row.job_id # job_id)
    ELSE IF get_job(rows, job_id) = <<>> THEN rows
    ELSE update_job_spec_next_run(rows, job_id, next_run)

\* A trigger fires.  The scheduler has moved a recurring trigger to its next
\* run and has dropped a one-shot trigger by the time _job_wrapper runs.  The
\* wrapper awaits on_fire, which is emit_scheduler_message, and goes on to the
\* row only if that returned: _send raises what the channel adapter raises.
FireJob(job_id, once, raises) ==
    /\ job_id \in triggers
    /\ Len(fires) < MaxFires
    /\ \E i \in DOMAIN jobs : jobs[i].job_id = job_id /\ once = one_time(jobs[i].when)
    /\ fires' = Append(fires, job_id)
    /\ triggers' = IF once THEN triggers \ {job_id} ELSE triggers
    /\ next_run_time' = [next_run_time EXCEPT ![job_id] = IF once THEN 0 ELSE @ + 1]
    /\ IF raises
       THEN UNCHANGED <<inpath, jobs>>
       ELSE /\ \E i \in DOMAIN jobs :
                  /\ jobs[i].job_id = job_id
                  /\ emit_scheduler_message(jobs[i].chat_id, Plain)
            /\ jobs' = job_wrapper(jobs, job_id, once, next_run_time'[job_id])
    /\ UNCHANGED <<payload, parsed, session_window_turns, session, arrived,
                   scheduled, restored, bridge, filtered, aside>>

\* main: the process starts on the same store with a new AsyncIOScheduler and
\* calls restore_jobs.
RestoreJobs(leap) ==
    /\ restored.boots < MaxBoots
    /\ LET got == restore_jobs(jobs, leap,
                               [triggers |-> {}, loaded |-> 0, failed |-> 0,
                                rows |-> <<>>])
       IN  /\ triggers' = got.triggers
           /\ next_run_time' = [j \in 1..MaxJobs |-> IF j \in got.triggers THEN 1 ELSE 0]
           /\ jobs' = got.rows
           /\ restored' = [loaded |-> got.loaded, failed |-> got.failed,
                           boots |-> restored.boots + 1, leap |-> leap]
    /\ UNCHANGED <<inpath, payload, parsed, session_window_turns, session,
                   arrived, scheduled, fires, bridge, filtered, aside>>

\* Jobs scheduled and cancelled through the scheduler tool, triggers that fire
\* with a channel that takes the reminder or raises, and restarts of the
\* process on days of either kind.
NextScheduler ==
    \/ \E chat_id \in Chats, when \in Whens, leap \in BOOLEAN :
          ScheduleJob(chat_id, when, leap)
    \/ \E job_id \in 1..MaxJobs : CancelJob(job_id)
    \/ \E job_id \in 1..MaxJobs, once \in BOOLEAN, raises \in BOOLEAN :
          FireJob(job_id, once, raises)
    \/ \E leap \in BOOLEAN : RestoreJobs(leap)

SpecScheduler == Init /\ [][NextScheduler]_vars

\* What the bridge client leaves alone: everything but its own state.
BridgeOnly ==
    UNCHANGED <<inpath, payload, parsed, session_window_turns, session, arrived,
                jobs, triggers, scheduled, restored, next_run_time, fires, filtered, aside>>

\* run_forever: websockets.connect returns a socket, which is kept in _ws, or
\* raises, which sets _ws to None and sleeps.
Connect(ok) ==
    /\ bridge.conn = "connecting"
    /\ bridge' = IF ok THEN [bridge EXCEPT !.conn = "connected", !.ws = "open"]
                 ELSE [bridge EXCEPT !.conn = "backoff", !.ws = "none"]
    /\ BridgeOnly

\* run_forever with a sleep that does not return to the loop.
BackoffForGood ==
    /\ bridge.conn = "backoff"
    /\ bridge' = [bridge EXCEPT !.conn = "stopped"]
    /\ BridgeOnly

\* run_forever: asyncio.sleep(2) is over and `while self._running` is tested:
\* the loop connects again, or run_forever returns.
Backoff ==
    /\ bridge.conn = "backoff"
    /\ bridge' = [bridge EXCEPT
                     !.conn = IF bridge.running THEN "connecting" ELSE "returned"]
    /\ BridgeOnly

\* run_forever: the connection ends while the loop waits for an envelope.  A
\* close handshake ends the async for, and the loop connects again at once with
\* the closed socket still in _ws; anything else is raised into the except
\* branch, which sets _ws to None and sleeps.  After the async for the loop
\* tests `while self._running` and returns if stop() has cleared it.
ConnectionLost(clean) ==
    /\ bridge.conn = "connected"
    /\ bridge' = IF clean
                 THEN [bridge EXCEPT
                          !.conn = IF bridge.running THEN "connecting" ELSE "returned",
                          !.ws = "closed"]
                 ELSE [bridge EXCEPT !.conn = "backoff", !.ws = "none"]
    /\ BridgeOnly

\* _handle_message on a bridge.inbound_message envelope.  on_inbound is awaited
\* for each valid payload in turn; raised is the position of the payload whose
\* on_inbound raises, 0 if none does: the exception leaves _handle_message and
\* the async for, and run_forever takes it for a connection error.
HandleInboundMessage(payloads, raised) ==
    /\ bridge.conn = "connected" /\ bridge.ws = "open"
    /\ bridge.received < MaxEnvelopes
    /\ payloads # <<>>
    /\ raised # 0 => raised \in DOMAIN payloads /\ payloads[raised] = "valid"
    /\ LET all == inbound_from(payloads, 1)
           done == IF raised = 0 THEN all
                   ELSE SelectSeq(all, LAMBDA i : i <= raised)
       IN  bridge' = [bridge EXCEPT
                         !.received = @ + 1, !.event = "inbound",
                         !.payloads = payloads, !.dispatched = done,
                         !.raised = (raised # 0),
                         !.receipt = NoReceipt, !.deliveries = <<>>,
                         !.conn = IF raised = 0 THEN @ ELSE "backoff",
                         !.ws = IF raised = 0 THEN @ ELSE "none"]
    /\ BridgeOnly

\* _handle_message on a bridge.delivery_receipt envelope: on_delivery, which is
\* register_outbound_provider_id, for the ids of the payload.
HandleDeliveryReceipt(receipt) ==
    /\ bridge.conn = "connected" /\ bridge.ws = "open"
    /\ bridge.received < MaxEnvelopes
    /\ LET ids == delivered_ids(receipt)
       IN  /\ ledger' = register_all(ledger, ids, receipt.chat_id)
           /\ bridge' = [bridge EXCEPT
                            !.received = @ + 1, !.event = "receipt",
                            !.payloads = <<>>, !.dispatched = <<>>,
                            !.raised = FALSE,
                            !.receipt = receipt, !.deliveries = ids]
    /\ Silent
    /\ UNCHANGED <<agent_max_steps, now, messages, pending, calls, handled,
                   claimLog, userRows, reminders, receipts, faults>>
    /\ UNCHANGED <<payload, parsed, session_window_turns, session, arrived,
                   jobs, triggers, scheduled, restored, next_run_time, fires, filtered, aside>>

\* emit_scheduler_message for the WhatsApp chat while the bridge client is in
\* any of its states: _send awaits send_outbound and, if that returned, writes
\* the ledger row, the log line and the assistant row.
SendOutbound(text) ==
    /\ reminders < MaxReminders
    /\ reminders' = reminders + 1
    /\ LET result == send_outbound(bridge.ws)
       IN  /\ bridge' = [bridge EXCEPT !.send = result]
           /\ IF result = "raised"
              THEN UNCHANGED <<wire, ledger, redacted_log, messages>>
              ELSE /\ wire' = IF result = "sent" THEN ReminderText(text) ELSE <<>>
                   /\ ledger' = SendRecords(ledger, "whatsapp", uuid4)
                   /\ redacted_log' = write_redacted_log("outbound.message",
                                                         ReminderText(text))
                   /\ messages' = insert_message(messages, uuid4, "assistant",
                                                 StoredText(ReminderText(text)))
    /\ UNCHANGED <<agent_max_steps, now, pending, calls, handled, claimLog,
                   userRows, receipts, faults>>
    /\ UNCHANGED <<payload, parsed, session_window_turns, session, arrived,
                   jobs, triggers, scheduled, restored, next_run_time, fires, filtered, aside>>

\* The bridge client from run_forever on: connections made, refused and lost,
\* envelopes of inbound messages and of delivery receipts, and a reminder sent
\* to the WhatsApp chat at any point of it.
NextBridge ==
    \/ \E ok \in BOOLEAN : Connect(ok)
    \/ Backoff
    \/ \E clean \in BOOLEAN : ConnectionLost(clean)
    \/ \E payloads \in InboundEnvelopes, raised \in 0..MaxPayloads :
          HandleInboundMessage(payloads, raised)
    \/ \E receipt \in Receipts : HandleDeliveryReceipt(receipt)
    \/ SendOutbound(Plain)

SpecBridge == Init /\ [][NextBridge]_vars

\* The same with a bridge that can be reached: the sleep ends, and of the
\* connection attempts made again and again one succeeds.
SpecBridgeLive ==
    /\ Init /\ [][NextBridge]_vars
    /\ WF_vars(Backoff)
    /\ SF_vars(Connect(TRUE))

\* BridgeClient.stop, called once while run_forever is in any of its states:
\* _running is cleared, and a socket kept in _ws is closed.  With no socket
\* in _ws (a first connection attempt, or one after the sleep) nothing is
\* closed, and closing the closed socket of an earlier connection does nothing.
Stop ==
    /\ bridge.running
    /\ bridge.conn # "returned"
    /\ bridge' = [bridge EXCEPT
                     !.running = FALSE,
                     !.ws = IF @ = "open" THEN "closed" ELSE @]
    /\ BridgeOnly

\* run_forever after stop() closed the socket it reads from: the async for
\* ends with the close and the loop is left.
Closed ==
    /\ bridge.ws = "closed"
    /\ ConnectionLost(TRUE)

\* The bridge client with a stop() at any point of it.
NextBridgeStop ==
    \/ NextBridge
    \/ Stop
    \/ Closed

\* The same with a sleep that ends, a connection attempt that succeeds or
\* fails, and a close that ends the receive loop.
SpecBridgeStop ==
    /\ Init /\ [][NextBridgeStop]_vars
    /\ WF_vars(Backoff)
    /\ WF_vars(\E ok \in BOOLEAN : Connect(ok))
    /\ WF_vars(Closed)

\* ------------------------------------------------------- jobs and chats
\* The chat_id a command or a decision may give in its arguments: none, one of
\* the two chats, or the empty string.
GivenChats == ArgChats \cup {""}

\* The chat_id SchedulerTool.run works with: _invoke_tool's setdefault keeps
\* what the arguments carry, and run reads str(args.get("chat_id") or "").
run_chat(inbound_chat, given) ==
    invoke_tool([NoArgs EXCEPT !.chat_id = given], inbound_chat, FALSE).chat_id

\* The rest of the state, which a cancel, an update or a list leaves alone.
JobsOnly ==
    UNCHANGED <<inpath, payload, parsed, session_window_turns, session, arrived,
                scheduled, restored, fires, bridge, filtered, loops, console>>

\* SchedulerTool.run, action "cancel", called for an inbound of inbound_chat.
CancelFrom(inbound_chat, given, job_id) ==
    LET chat_id == run_chat(inbound_chat, given)
        row == get_job(jobs, job_id)
        refused == row # <<>> /\ chat_id # "" /\ row[1].chat_id # chat_id
    IN  /\ ran' = [action |-> "cancel", inbound_chat |-> inbound_chat,
                   chat_id |-> chat_id, job_id |-> job_id,
                   job_chat |-> IF row = <<>> THEN NoChat ELSE row[1].chat_id,
                   ok |-> ~refused, listed |-> <<>>]
        /\ IF refused
           THEN UNCHANGED <<jobs, triggers, next_run_time>>
           ELSE /\ triggers' = triggers \ {job_id}
                /\ next_run_time' = [next_run_time EXCEPT ![job_id] = 0]
                /\ jobs' = SelectSeq(jobs, LAMBDA r : r.job_id # job_id)
        /\ JobsOnly

\* SchedulerTool.run, action "update".
UpdateFrom(inbound_chat, given, job_id, when, leap) ==
    LET chat_id == run_chat(inbound_chat, given)
        row == get_job(jobs, job_id)
        done == /\ row # <<>>
                /\ ~(chat_id # "" /\ row[1].chat_id # chat_id)
                /\ parse_trigger(when, leap)
    IN  /\ ran' = [action |-> "update", inbound_chat |-> inbound_chat,
                   chat_id |-> chat_id, job_id |-> job_id,
                   job_chat |-> IF row = <<>> THEN NoChat ELSE row[1].chat_id,
                   ok |-> done, listed |-> <<>>]
        /\ IF done
           THEN /\ triggers' = triggers \cup {job_id}
                /\ next_run_time' = [next_run_time EXCEPT ![job_id] = 1]
                /\ jobs' = [i \in DOMAIN jobs |->
                               IF jobs[i].job_id = job_id
                               THEN [jobs[i] EXCEPT !.when = when, !.next_run_at = 1]
                               ELSE jobs[i]]
           ELSE UNCHANGED <<jobs, triggers, next_run_time>>
        /\ JobsOnly

\* SchedulerTool.run, action "list": db.list_jobs(chat_id).
ListFrom(inbound_chat, given) ==
    LET chat_id == run_chat(inbound_chat, given)
    IN  /\ ran' = [action |-> "list", inbound_chat |-> inbound_chat,
                   chat_id |-> chat_id, job_id |-> 0, job_chat |-> NoChat,
                   ok |-> chat_id # "",
                   listed |-> IF chat_id = "" THEN <<>>
                              ELSE SelectSeq(jobs, LAMBDA r : r.chat_id = chat_id)]
        /\ UNCHANGED <<jobs, triggers, next_run_time>>
        /\ JobsOnly

\* Jobs of both chats, and cancels, updates and lists that reach the scheduler
\* tool from either chat with whatever chat_id their arguments give.
NextOwnership ==
    \/ \E chat_id \in Chats, when \in Whens : ScheduleJob(chat_id, when, TRUE)
    \/ \E inbound_chat \in Chats, given \in GivenChats, job_id \in 1..MaxJobs :
          CancelFrom(inbound_chat, given, job_id)
    \/ \E inbound_chat \in Chats, given \in GivenChats, job_id \in 1..MaxJobs,
          when \in Whens, leap \in BOOLEAN :
          UpdateFrom(inbound_chat, given, job_id, when, leap)
    \/ \E inbound_chat \in Chats, given \in GivenChats : ListFrom(inbound_chat, given)

SpecOwnership == Init /\ [][NextOwnership]_vars

\* ------------------------------------------------------------ channel loops
\* The suspension points of handle_inbound and of emit_scheduler_message.
Points == {"llm", "tool", "send"}

\* A sequence without its i-th element.
Without(seq, i) == SubSeq(seq, 1, i - 1) \o SubSeq(seq, i + 1, Len(seq))

\* A channel loop that hands each message to asyncio.create_task(handler(...))
\* and reads on.
CreateTaskHandler(ch, point) ==
    /\ loops.pos[ch] = "read"
    /\ loops.awaited < MaxAwaited
    /\ loops' = [loops EXCEPT !.running[ch] = Append(@, point),
                              !.awaited = @ + 1]

\* BridgeClient.run_forever and CLIChannel.run: 'await handler(msg)' inside
\* the loop body.  The loop reads its next message when the handler returned.
AwaitHandler(ch, point) ==
    /\ loops.pos[ch] = "read"
    /\ loops.awaited < MaxAwaited
    /\ loops' = [loops EXCEPT !.pos[ch] = "await",
                              !.running[ch] = Append(@, point),
                              !.awaited = @ + 1]

\* A handler resumes and runs to its next suspension point.
HandlerYields(ch, i, point) ==
    /\ i \in DOMAIN loops.running[ch]
    /\ point # loops.running[ch][i]
    /\ loops' = [loops EXCEPT !.running[ch][i] = point]

\* A handler resumes and returns; its loop goes on.
HandlerReturns(ch, i) ==
    /\ i \in DOMAIN loops.running[ch]
    /\ loops' = [loops EXCEPT !.running[ch] = Without(@, i),
                              !.pos[ch] = "read"]

\* The in-process scheduler starts on_fire = emit_scheduler_message as a
\* coroutine of the same event loop; it waits in _send.
EmitStarts ==
    /\ loops.emitted < MaxEmissions
    /\ loops' = [loops EXCEPT !.emitting = Append(@, "send"), !.emitted = @ + 1]

EmitReturns ==
    /\ loops.emitting # <<>>
    /\ loops' = [loops EXCEPT !.emitting = Tail(@)]

LoopsOnly ==
    UNCHANGED <<inpath, payload, parsed, session_window_turns, session, arrived,
                jobs, triggers, scheduled, restored, next_run_time, fires,
                bridge, filtered, console, ran>>

\* main: asyncio.gather(bridge.run_forever(), cli.run(loop.handle_inbound))
\* beside the started scheduler.
NextLoops ==
    \/ \E ch \in Channels, point \in Points : AwaitHandler(ch, point) /\ LoopsOnly
    \/ \E ch \in Channels, i \in 1..MaxAwaited, point \in Points :
          HandlerYields(ch, i, point) /\ LoopsOnly
    \/ \E ch \in Channels, i \in 1..MaxAwaited : HandlerReturns(ch, i) /\ LoopsOnly
    \/ EmitStarts /\ LoopsOnly
    \/ EmitReturns /\ LoopsOnly

SpecLoops == Init /\ [][NextLoops]_vars

\* ------------------------------------------------------------------ console
\* A line typed at the console: a word, in capitals or not, with pad blanks
\* around it.  The line of the empty word without blanks is the empty line.
Lines ==
    [word : {"", "exit", "quit", "hello"}, upper : BOOLEAN, pad : 0..1]

EmptyLine == [word |-> "", upper |-> FALSE, pad |-> 0]

\* str.lower() on a line.
line_lower(line) == [line EXCEPT !.upper = FALSE]

\* CLIChannel._read_line: end of input reads as "quit".
read_line(line, eof) ==
    IF eof THEN [word |-> "quit", upper |-> FALSE, pad |-> 0] ELSE line

\* CLIChannel.run: text.strip().lower() in {"exit", "quit"}
leaves(text) == line_lower(strip(text)).word \in {"exit", "quit"}

\* CLIChannel.run, one turn of its loop: the line read, the test for
\* exit/quit, the InboundMessage with its two uuid4 values, and the awaited
\* handler.
CliRun(line, eof) ==
    /\ console.pos = "read"
    /\ Len(console.lines) < MaxLines
    /\ LET text == read_line(line, eof)
       IN  console' =
             IF leaves(text)
             THEN [console EXCEPT !.pos = "ended",
                                  !.lines = Append(@, [line |-> line, eof |-> eof])]
             ELSE [console EXCEPT
                     !.lines = Append(@, [line |-> line, eof |-> eof]),
                     !.inbounds = Append(@, [id |-> console.uuids + 1,
                                             trace_id |-> console.uuids + 2,
                                             channel |-> "cli",
                                             chat_id |-> CliChat,
                                             text |-> text,
                                             line |-> Len(console.lines) + 1]),
                     !.uuids = @ + 2]
    /\ UNCHANGED <<inpath, payload, parsed, session_window_turns, session, arrived,
                   jobs, triggers, scheduled, restored, next_run_time, fires,
                   bridge, filtered, loops, ran>>

\* The console loop over every line and the end of input.
NextConsole ==
    \E line \in Lines, eof \in BOOLEAN :
        /\ eof => line = EmptyLine
        /\ line.word = "" => ~line.upper
        /\ CliRun(line, eof)

SpecConsole == Init /\ [][NextConsole]_vars

\* ------------------------------------------------------------------ claims
Wins(id) == {k \in DOMAIN claimLog[id] : claimLog[id][k]}

Other(ch) == CHOOSE c \in Channels : c # ch

C2_OnlyFirstClaimWins ==
    \A id \in InboundIds :
        /\ \A k \in DOMAIN claimLog[id] : claimLog[id][k] => k = 1
        /\ claimLog[id] # <<>> => id \in DOMAIN ledger

\* A delivery receipt rewrote the row of a claimed id and the next claim of
\* the id was refused.
C2_Witness ==
    \E id \in InboundIds :
        /\ Len(claimLog[id]) = 2
        /\ claimLog[id][1] /\ ~claimLog[id][2]
        /\ ledger[id].direction = "outbound"

\* C2 as stated: every claimed id has exactly one claim that returned true.
C2_ExactlyOneWin ==
    \A id \in InboundIds : claimLog[id] # <<>> => Cardinality(Wins(id)) = 1

C4_ResolvedOnce ==
    [][\A i \in DOMAIN pending :
          /\ pending[i].status # "pending" => pending'[i] = pending[i]
          /\ Len(pending'[i].history) <= 1
          /\ pending'[i].execs <= 1]_vars

\* The only action of a chat is approved and executed, and a later YES/NO of
\* that chat has found nothing to resolve and is in the ReAct loop.
C4_Witness ==
    \E ch \in Channels, i \in DOMAIN pending :
        /\ PendingIdxAnyStatus(pending, ChatOf(ch)) = {i}
        /\ pending[i].status = "approved" /\ pending[i].execs = 1
        /\ handled = 3
        /\ calls[ch].pc = "llm" /\ calls[ch].react /\ calls[ch].tools = 0

\* C5: a YES or NO handled after the expiry of the chat's latest pending action
\* sets that action to 'expired' and invokes no tool; an expired action holds
\* no other status, before or after, and its tool has not been invoked.
C5_LateAnswerExpires ==
    [][/\ \A i \in DOMAIN pending :
             /\ (/\ pending[i].status = "pending"
                 /\ pending[i].expires_at < now
                 /\ pending'[i] # pending[i])
                   => pending'[i].status = "expired"
             /\ pending'[i].status = "expired"
                   => pending'[i].history = <<"expired">> /\ pending'[i].execs = 0
       /\ \A ch \in Channels :
             LET i == get_latest_pending_action(pending, ChatOf(ch))
             IN  (/\ calls[ch].pc = "claimed"
                  /\ calls'[ch].persisted
                  /\ parse_confirmation(calls[ch].inb.kind) # "none"
                  /\ i # 0
                  /\ pending[i].expires_at < now)
                    => /\ pending'[i].status = "expired"
                       /\ calls'[ch].tools = 0]_vars

\* An answer came too late: the action is expired and the answer is in the
\* ReAct loop.
C5_Witness ==
    \E ch \in Channels, i \in DOMAIN pending :
        /\ pending[i].chat_id = ChatOf(ch)
        /\ pending[i].status = "expired" /\ pending[i].expires_at < now
        /\ calls[ch].pc = "llm" /\ calls[ch].react /\ calls[ch].tools = 0

\* C6: a call makes at most max(1, agent_max_steps) complete_json calls, failed
\* and invalid steps included.
C6_StepBound ==
    \A ch \in Channels : calls[ch].llm <= Max(1, agent_max_steps)

\* Every step of a loop of more than one step failed, and the max-steps text
\* is on its way.
C6_Witness ==
    \E ch \in Channels :
        /\ agent_max_steps = MaxConfiguredSteps
        /\ calls[ch].llm = agent_max_steps /\ calls[ch].tools = 0
        /\ calls[ch].pc = "send" /\ calls[ch].out = "maxsteps"

\* C6 as stated: a call makes at most agent_max_steps complete_json calls.
C6_AtMostConfigured ==
    \A ch \in Channels : calls[ch].llm <= agent_max_steps

Terminals(sent) == {k \in DOMAIN sent : sent[k] \in TerminalKinds}

\* C7: a call that reached the ReAct loop and returned has handed over exactly
\* one terminal outbound, the last one, and only artifact messages before it.
C7_ExactlyOneTerminal ==
    \A ch \in Channels :
        (calls[ch].pc = "done" /\ calls[ch].react) =>
            /\ Terminals(calls[ch].sent) = {Len(calls[ch].sent)}
            /\ \A k \in 1..(Len(calls[ch].sent) - 1) : calls[ch].sent[k] = "artifact"

Count(seq, x) == Cardinality({k \in DOMAIN seq : seq[k] = x})

\* C8: a call in which a step raised makes exactly one attempt to send the
\* fallback text, records at most one inbound.error audit and returns; a call
\* in which nothing raised does neither.
C8_OneFallbackAttempt ==
    \A ch \in Channels :
        /\ calls[ch].raised =>
              /\ calls[ch].attempts = 1
              /\ calls[ch].pc \in {"send", "done"}
              /\ calls[ch].pc = "send" => calls[ch].out = "fallback"
              /\ Count(calls[ch].sent, "fallback") <= 1
              /\ Count(calls[ch].audit, "inbound.error") <= 1
        /\ ~calls[ch].raised =>
              /\ calls[ch].attempts = 0
              /\ Count(calls[ch].sent, "fallback") = 0
              /\ Count(calls[ch].audit, "inbound.error") = 0
              /\ calls[ch].out # "fallback"

\* After the call that raised, the next inbound gets its response.
C8_Witness ==
    \E ch \in Channels :
        /\ faults = 1 /\ handled = 2
        /\ calls[Other(ch)].pc = "idle"
        /\ ~calls[ch].raised
        /\ calls[ch].pc = "send" /\ calls[ch].out = "response"

\* C8 as stated: a call in which a step raised has its inbound.error audit.
C8_AuditRecorded ==
    \A ch \in Channels :
        (calls[ch].raised /\ calls[ch].pc = "done")
            => Count(calls[ch].audit, "inbound.error") = 1

\* C9: no text of a messages row, of a redacted-log line or handed to a
\* channel adapter holds a substring that a redaction pattern matches.
C9_NoRawEgress ==
    /\ ~HasRaw(wire)
    /\ ~HasRaw(redacted_log.text)
    /\ \A r \in messages : ~HasRaw(r.text)

\* C10: an inbound id that was claimed for a non-empty inbound has its user
\* row, in every state outside the synchronous segment that writes both.
C10_ClaimedHasRow ==
    \A ch \in Channels :
        (/\ calls[ch].pc \notin {"idle", "claimed"}
         /\ calls[ch].proceeded /\ calls[ch].nonempty)
            => /\ calls[ch].id \in DOMAIN ledger
               /\ HasRow(messages, calls[ch].id)

\* The handler of channel ch has taken a message in this step.
Entered(ch) == calls[ch].pc = "idle" /\ calls'[ch].pc # "idle"

\* A call that the channel filter turned away: it returned without a claim,
\* without a refusal and without an exception.
Filtered(rec) ==
    rec.pc = "done" /\ ~rec.proceeded /\ ~rec.dropped /\ ~rec.raised

\* What a call leaves behind besides its ledger claim.
Untouched(rec) ==
    /\ rec.audit = <<>> /\ rec.sent = <<>> /\ rec.attempts = 0
    /\ ~rec.persisted /\ rec.llm = 0 /\ rec.tools = 0

\* C11: in the step that takes a message in, a call in which nothing raised
\* writes the ledger claim and nothing else, and writes no claim when the
\* filter turned the message away or the claim was refused; a call that holds
\* no claim and did not raise never writes anything.
C11_ClaimIsFirstMutation ==
    [][\A ch \in Channels :
          /\ (Entered(ch) /\ ~calls'[ch].raised) =>
                /\ messages' = messages /\ pending' = pending
                /\ redacted_log' = NoLine /\ wire' = <<>>
                /\ Untouched(calls'[ch])
                /\ IF calls'[ch].proceeded
                   THEN /\ calls'[ch].id \notin DOMAIN ledger
                        /\ ledger' = insert_ledger(ledger, calls'[ch].id,
                                                   "inbound", ChatOf(ch))
                   ELSE ledger' = ledger
          /\ (~calls'[ch].proceeded /\ ~calls'[ch].raised) =>
                /\ Untouched(calls'[ch])
                /\ calls'[ch].pc \in {"idle", "done", "crashed"}]_vars

\* The filter turned a WhatsApp message away and the ledger does not know its id.
C11_Witness ==
    /\ Filtered(calls["whatsapp"])
    /\ calls["whatsapp"].id \notin DOMAIN ledger
    /\ calls["cli"].proceeded /\ calls["cli"].persisted

\* C11 as stated: a call that holds no claim has written nothing.
C11_UnclaimedWritesNothing ==
    \A ch \in Channels : ~calls[ch].proceeded => Untouched(calls[ch])

\* C12: the arguments a tool is invoked with carry the chat of the inbound
\* being handled, and confirmed = true when the call resumes an approved
\* pending action.
C12_ToolGetsInboundChat ==
    \A ch \in Channels :
        calls[ch].pc = "tool" =>
            /\ calls[ch].args.chat_id = ChatOf(ch)
            /\ calls[ch].ctx = "confirmed" => calls[ch].args.confirmed

\* C13: a YES or NO that finds the chat's latest pending action unexpired is
\* consumed by the confirmation step: YES marks the action approved and invokes
\* the tool with the stored arguments and confirmed = true, NO marks it denied
\* and sends the cancellation text without a tool call; neither reaches the
\* ReAct loop or the LLM.
C13_AnswerConsumed ==
    [][\A ch \in Channels :
          LET i == get_latest_pending_action(pending, ChatOf(ch))
              kind == calls[ch].inb.kind
              after == calls'[ch]
          IN  /\ (/\ calls[ch].pc = "claimed" /\ after.persisted
                  /\ kind \in YES \cup NO
                  /\ i # 0
                  /\ ~(pending[i].expires_at < now))
                    => /\ after.llm = 0 /\ ~after.react
                       /\ IF kind \in YES
                          THEN /\ pending'[i].status = "approved"
                               /\ after.pc = "tool" /\ after.ctx = "confirmed"
                               /\ after.act = i /\ after.tools = 1
                               /\ after.args =
                                     [pending[i].proposed_args EXCEPT !.confirmed = TRUE]
                          ELSE /\ pending'[i].status = "denied"
                               /\ after.pc = "send" /\ after.out = "cancel"
                               /\ after.otext = CancelText /\ after.tools = 0
              /\ (after.ctx = "confirmed" \/ after.out = "cancel") =>
                    /\ after.llm = 0 /\ ~after.react
                    /\ after.tools = (IF after.out = "cancel" THEN 0 ELSE 1)]_vars

\* The answer arrived at the very minute the action expires and was still
\* taken: the approved tool is running.
C13_Witness ==
    \E ch \in Channels, i \in DOMAIN pending :
        /\ calls[ch].pc = "tool" /\ calls[ch].ctx = "confirmed"
        /\ calls[ch].act = i /\ calls[ch].args.confirmed
        /\ pending[i].status = "approved" /\ pending[i].expires_at = now

\* The texts that start with /tool, /schedule or /jobs, and those among them
\* that _parse_tool_command takes for a command.
SlashKinds == CommandKinds \cup {"tool", "usage"}
ToolCommands == {"tool", "tool_list", "schedule", "jobs"}
UsageCommands == {"usage", "schedule_nobar"}

\* The call of channel ch stores its user row in this step and its text is no
\* consumed confirmation.
Routed(ch) ==
    /\ calls[ch].pc = "claimed" /\ calls'[ch].persisted
    /\ parse_confirmation(calls[ch].inb.kind) = "none"

\* C14: a /tool command with a name and a JSON part, a /schedule command with
\* something after it and /jobs make no LLM call: the tool is invoked, or the
\* usage hint is sent when the JSON is invalid or the '|' is missing.  A /tool
\* with a name only and a /schedule followed by blanks only are no commands and
\* go to the ReAct loop.
C14_CommandsSkipLLM ==
    [][\A ch \in Channels :
          LET kind == calls[ch].inb.kind
              after == calls'[ch]
          IN  /\ (Routed(ch) /\ kind \in ToolCommands) =>
                    /\ after.pc = "tool" /\ after.ctx = "direct"
                    /\ after.tools = 1 /\ after.llm = 0
              /\ (Routed(ch) /\ kind \in UsageCommands) =>
                    /\ after.pc = "send" /\ after.out = "usage"
                    /\ after.tools = 0 /\ after.llm = 0
              /\ (Routed(ch) /\ kind \in SlashKinds \ (ToolCommands \cup UsageCommands)) =>
                    \/ after.pc = "llm" /\ after.llm = 1
                    \/ after.raised
              /\ (after.ctx = "direct" \/ after.out = "usage") =>
                    after.llm = 0 /\ ~after.react]_vars

\* A /schedule command without its '|' is answered with the usage hint.
C14_Witness ==
    \E ch \in Channels :
        /\ calls[ch].pc = "done" /\ calls[ch].sent = <<"usage">>
        /\ calls[ch].llm = 0 /\ calls[ch].tools = 0 /\ handled = 1

\* C14 as stated: no text that starts with /tool, /schedule or /jobs leads to
\* an LLM call.
C14_NoSlashTextReachesLLM ==
    [][\A ch \in Channels :
          (Routed(ch) /\ calls[ch].inb.kind \in SlashKinds) => calls'[ch].llm = 0]_vars

StepFailed(ch) ==
    /\ calls[ch].pc = "llm"
    /\ Len(calls'[ch].audit) > Len(calls[ch].audit)
    /\ calls'[ch].audit[Len(calls[ch].audit) + 1] = FailedStep

\* C16: a step without a valid decision hands nothing to a channel and writes
\* no row; it is audited as loop.step with ok = false, the model text without
\* its surrounding blanks, cut to 2000 characters, is appended to the step
\* messages when anything is left of it, then the correction request, and the
\* loop takes its next step, or sends the max-steps text after the last one.
C16_FailedStepGoesOn ==
    [][\A ch \in Channels :
          LET before == calls[ch]
              after == calls'[ch]
              body == after.raw_content.body
          IN  StepFailed(ch) =>
                /\ wire' = <<>> /\ redacted_log' = NoLine
                /\ messages' = messages /\ ledger' = ledger
                /\ after.sent = before.sent
                /\ ~after.raised =>
                      /\ after.step_messages =
                            before.step_messages
                            \o (IF body > 0
                                THEN <<StepMessage("assistant", "snippet",
                                                   IF body > SnippetLimit
                                                   THEN SnippetLimit ELSE body)>>
                                ELSE <<>>)
                            \o <<StepMessage("user", "correction", 0)>>
                      /\ IF before.step < Max(1, agent_max_steps)
                         THEN /\ after.pc = "llm"
                              /\ after.step = before.step + 1
                              /\ after.llm = before.llm + 1
                         ELSE /\ after.pc = "send" /\ after.out = "maxsteps"
                              /\ after.llm = before.llm]_vars

\* The model returned more than 2000 characters that are no decision; the
\* second step runs with the cut text and the correction request.
C16_Witness ==
    \E ch \in Channels :
        /\ calls[ch].pc = "llm" /\ calls[ch].step = 2
        /\ calls[ch].raw_content.body = SnippetLimit + 1
        /\ calls[ch].step_messages =
              <<StepMessage("assistant", "snippet", SnippetLimit),
                StepMessage("user", "correction", 0)>>
        /\ calls[ch].sent = <<>>

\* C16 as stated: whenever the model text of a failed step is not empty, the
\* correction request is preceded by that text.
C16_NonEmptyTextQuoted ==
    [][\A ch \in Channels :
          (/\ StepFailed(ch) /\ ~calls'[ch].raised
           /\ calls'[ch].raw_content.pad + calls'[ch].raw_content.body > 0)
             => Len(calls'[ch].step_messages) = Len(calls[ch].step_messages) + 2]_vars

\* A field of the decision object that is there and not null.
Present(field) == field \notin {"absent", "null"}

\* C17: an accepted decision has exactly one of call and response, the one its
\* payload carries; a payload that carries both, or neither, is rejected.
C17_ExactlyOneAction ==
    /\ parsed.ok =>
          /\ parsed.has_call # parsed.has_response
          /\ parsed.has_call = (payload.call = "valid")
          /\ parsed.has_response = (payload.response = "text")
    /\ (Present(payload.call) = Present(payload.response)) => ~parsed.ok

\* A tool call that comes as the first element of an array, with an explicit
\* null for the response, is accepted as a call.
C17_Witness ==
    /\ parsed.ok /\ parsed.has_call /\ ~parsed.has_response
    /\ payload.wrap = "array" /\ payload.response = "null"

\* C18: the session window of a chat holds the last session_window_turns turns
\* that arrived for the chat, or all of them when fewer arrived, in the order
\* of their arrival.
C18_WindowHoldsLatest ==
    \A c \in Chats :
        LET k == Len(session[c])
        IN  /\ k <= session_window_turns
            /\ k = Min(session_window_turns, arrived[c])
            /\ \A i \in 1..k : session[c][i].content = arrived[c] - k + i

\* One chat has seen more turns than its window holds while the other has not
\* filled its own.
C18_Witness ==
    /\ session_window_turns = MaxWindow
    /\ arrived[CliChat] = MaxTurns /\ Len(session[CliChat]) = MaxWindow
    /\ arrived[WaChat] = 1 /\ Len(session[WaChat]) = 1

\* The records of an outbound are written in this step: an assistant row, an
\* outbound ledger row under the message's own id, or an outbound log line.
OutboundRecorded ==
    \/ \E r \in messages' \ messages : r.role = "assistant"
    \/ uuid4 \in DOMAIN ledger' \ DOMAIN ledger
    \/ redacted_log'.event = "outbound.message"

\* C19: the records of an outbound are written in the step in which its text
\* was handed to the channel, by the call that handed it over; a call whose
\* hand-off raised writes no row, no ledger entry and no log line for it.
C19_RecordedAfterHandOff ==
    [][/\ OutboundRecorded =>
             \E ch \in Channels :
                 /\ calls[ch].pc = "send"
                 /\ wire' = calls[ch].otext
                 /\ calls'[ch].sent = Append(calls[ch].sent, calls[ch].out)
       /\ \A ch \in Channels :
             (/\ calls[ch].pc = "send"
              /\ calls'[ch].pc \notin {"send", "crashed"} \/ calls'[ch].out # calls[ch].out
              /\ calls'[ch].sent = calls[ch].sent)
                => /\ messages' = messages /\ ledger' = ledger
                   /\ redacted_log' = NoLine /\ wire' = <<>>]_vars

\* The hand-off of a response to the bridge raised: the call is about to send
\* the fallback text and the store holds no assistant row and no outbound
\* ledger entry.
C19_Witness ==
    /\ calls["whatsapp"].pc = "send" /\ calls["whatsapp"].out = "fallback"
    /\ calls["whatsapp"].audit = <<"loop.step", "inbound.error">>
    /\ calls["whatsapp"].sent = <<>> /\ calls["whatsapp"].tools = 0
    /\ \A r \in messages : r.role # "assistant"
    /\ uuid4 \notin DOMAIN ledger

C21_RowFollowsLifecycle ==
    [][/\ \A i \in DOMAIN jobs :
             LET job_id == jobs[i].job_id
                 fired == Len(fires') > Len(fires) /\ fires'[Len(fires')] = job_id
             IN  /\ get_job(jobs', job_id) = <<>> =>
                       \/ fired /\ one_time(jobs[i].when)
                       \/ job_id \notin triggers'
                 /\ fired /\ one_time(jobs[i].when) => get_job(jobs', job_id) = <<>>
                 /\ fired /\ ~one_time(jobs[i].when) =>
                       /\ get_job(jobs', job_id) # <<>>
                       /\ get_job(jobs', job_id)[1].next_run_at = next_run_time'[job_id]
       /\ scheduled' > scheduled => get_job(jobs', scheduled') # <<>>]_vars

\* C22: an inbound_message payload that is no object or does not validate is
\* passed over: while no handler raises, every valid payload of the envelope,
\* before and after it, is given to on_inbound once and in order, none of the
\* others is, and the loop stays on its connection, where it reads the
\* envelopes that follow.
C22_BadPayloadSkipped ==
    [][(bridge'.received # bridge.received /\ bridge'.event = "inbound"
          /\ ~bridge'.raised) =>
          /\ \A i \in DOMAIN bridge'.payloads :
                Cardinality({k \in DOMAIN bridge'.dispatched :
                                bridge'.dispatched[k] = i})
                   = IF bridge'.payloads[i] = "valid" THEN 1 ELSE 0
          /\ \A k \in DOMAIN bridge'.dispatched :
                k > 1 => bridge'.dispatched[k - 1] < bridge'.dispatched[k]
          /\ bridge'.conn = "connected" /\ bridge'.ws = "open"]_vars

\* The second envelope read has a scalar, then an invalid object, then a
\* valid payload, which was dispatched, and the loop is connected.
C22_Witness ==
    /\ bridge.received = 2 /\ bridge.conn = "connected"
    /\ bridge.payloads = <<"scalar", "invalid", "valid">>
    /\ bridge.dispatched = <<3>>

Named(receipt) ==
    ({receipt.provider_message_id} \cup Range(receipt.provider_message_ids))
       \ {EmptyId}

\* C23: for a delivery receipt with a chat_id, on_delivery is called once for
\* every distinct non-empty provider id of provider_message_id and
\* provider_message_ids and for nothing else; after it the ledger holds each of
\* them as outbound under that chat_id and refuses the claim of an inbound
\* with that id.
C23_ReceiptIdsRegisteredOnce ==
    [][(bridge'.received # bridge.received /\ bridge'.event = "receipt"
          /\ bridge'.receipt.chat_id # "-") =>
          LET receipt == bridge'.receipt
          IN  /\ Range(bridge'.deliveries) = Named(receipt)
              /\ Len(bridge'.deliveries) = Cardinality(Named(receipt))
              /\ \A id \in Named(receipt) :
                    /\ ledger_contains(ledger', id, "outbound")
                    /\ ledger'[id].chat_id = receipt.chat_id
                    /\ ~claim_ledger(ledger', id, "inbound", receipt.chat_id).claimed
              /\ DOMAIN ledger' = DOMAIN ledger \cup Named(receipt)]_vars

\* A receipt named one id twice and another once; both are in the ledger.
C23_Witness ==
    /\ bridge.event = "receipt"
    /\ bridge.receipt.provider_message_id = <<0, 1>>
    /\ bridge.receipt.provider_message_ids = << <<0, 1>>, <<0, 2>> >>
    /\ bridge.receipt.chat_id = WaChat
    /\ bridge.deliveries = << <<0, 1>>, <<0, 2>> >>
    /\ ledger_contains(ledger, <<0, 1>>, "outbound")
    /\ ledger_contains(ledger, <<0, 2>>, "outbound")

\* C24: a message sent while the bridge socket is not connected (before the
\* first connection, after the peer closed it, between two attempts) is
\* dropped by send_outbound without an exception, and _send writes the
\* redacted-log line and the assistant row for it.
C24_UnconnectedSendDropped ==
    [][(reminders' # reminders /\ bridge.conn # "connected") =>
          /\ bridge'.send = "dropped"
          /\ redacted_log' = write_redacted_log("outbound.message", ReminderText(Plain))
          /\ HasRow(messages', uuid4)]_vars

\* C25: the loop of run_forever never ends on a transport error: after a
\* refused connection, a lost one or an exception out of the receive loop it
\* is connecting again, after the sleep where there was an error; with a
\* bridge that can be reached it is connected again in the end.
C25_AlwaysReconnects ==
    /\ [](bridge.conn \in {"connecting", "connected", "backoff"})
    /\ [][bridge.conn = "connected" /\ bridge'.conn # "connected" =>
             \/ bridge'.conn = "backoff" /\ bridge'.ws = "none"
             \/ bridge'.conn = "connecting" /\ bridge'.ws = "closed"]_vars
    /\ [][bridge.conn = "backoff" /\ bridge'.conn # "backoff" =>
             bridge'.conn = "connecting"]_vars
    /\ (bridge.conn # "connected") ~> (bridge.conn = "connected")

\* The handler of an envelope raised, which cost the connection, and the loop
\* is connected again.
C25_Witness ==
    /\ bridge.raised /\ bridge.event = "inbound"
    /\ bridge.conn = "connected" /\ bridge.ws = "open"

\* C26: a text handed to the WhatsApp channel is the formatter's rewriting of
\* the outbound text, and the call has an outbound.format.applied audit row;
\* a text handed to the console is the outbound text itself, and the call has
\* no such row.
C26_WhatsAppTextFormatted ==
    [][\A ch \in Channels :
          (/\ calls[ch].pc = "send"
           /\ calls'[ch].sent = Append(calls[ch].sent, calls[ch].out)) =>
             IF ch = "whatsapp"
             THEN /\ wire' = format_whatsapp_text(calls[ch].otext)
                  /\ "outbound.format.applied" \in Range(calls'[ch].audit)
             ELSE /\ wire' = calls[ch].otext
                  /\ "outbound.format.applied" \notin Range(calls'[ch].audit)]_vars

\* C27: a WhatsApp inbound gets to the ledger claim exactly when is_self_chat
\* holds and either is_from_me holds or the user part of the normalized
\* sender_id is the user part of the normalized chat_id and is not empty; the
\* call of any other inbound returns at once, with the ledger, the messages,
\* the pending actions, the audit log and the session windows as they were
\* and nothing handed to a channel.
C27_AdmittedExactlyWhen ==
    [][filtered' # filtered =>
          LET f == filtered'
              rec == calls'["whatsapp"]
              admitted ==
                  /\ f.is_self_chat
                  /\ \/ f.is_from_me
                     \/ /\ wa_user(f.sender_id) = wa_user(f.chat_id)
                        /\ wa_user(f.chat_id) # ""
          IN  /\ admitted <=> (claimLog'[f.id] # claimLog[f.id] \/ rec.raised)
              /\ ~admitted =>
                    /\ rec.pc = "done" /\ ~rec.proceeded
                    /\ UNCHANGED <<ledger, messages, pending, session, userRows>>
                    /\ rec.audit = <<>> /\ rec.sent = <<>> /\ rec.attempts = 0
                    /\ wire' = <<>> /\ redacted_log' = NoLine]_vars

\* A message not from me whose sender, in capitals and with a device suffix on
\* another domain, is the user of the chat: it was claimed.
C27_Witness ==
    /\ filtered.is_self_chat /\ ~filtered.is_from_me
    /\ filtered.sender_id = [user |-> "A", device |-> TRUE, at |-> TRUE,
                             domain |-> "s.whatsapp.net"]
    /\ filtered.chat_id = [user |-> "a", device |-> FALSE, at |-> TRUE,
                           domain |-> "lid"]
    /\ calls["whatsapp"].proceeded
    /\ ledger_contains(ledger, filtered.id, "inbound")

\* C28: a claimed WhatsApp inbound whose text is blank and which carries no
\* media is dropped in the next step of its call: no message row, no log
\* line, no change to a pending action, no LLM or tool call, no audit row and
\* nothing handed to a channel.
C28_EmptyPayloadDropped ==
    [][\A ch \in Channels :
          (/\ calls[ch].pc = "claimed" /\ calls'[ch] # calls[ch]
           /\ calls[ch].inb.channel = "whatsapp"
           /\ calls[ch].inb.kind = "blank" /\ ~calls[ch].inb.media) =>
             /\ calls'[ch].pc \in {"done", "crashed"}
             /\ ~calls'[ch].persisted /\ ~calls'[ch].nonempty
             /\ calls'[ch].llm = 0 /\ calls'[ch].tools = 0
             /\ calls'[ch].sent = <<>> /\ calls'[ch].attempts = 0
             /\ calls'[ch].audit = <<>>
             /\ UNCHANGED <<messages, userRows, pending, ledger, session>>
             /\ wire' = <<>> /\ redacted_log' = NoLine]_vars

\* An empty WhatsApp message was claimed and its call has returned: the ledger
\* holds its id and there is no row for it.
C28_Witness ==
    /\ calls["whatsapp"].pc = "done"
    /\ calls["whatsapp"].proceeded /\ ~calls["whatsapp"].nonempty
    /\ ~calls["whatsapp"].raised
    /\ ledger_contains(ledger, calls["whatsapp"].id, "inbound")
    /\ ~HasRow(messages, calls["whatsapp"].id)
    /\ calls["whatsapp"].sent = <<>> /\ calls["whatsapp"].llm = 0

\* C29: when a chat has several pending actions, a step resolves at most the
\* one created last among those still pending: every older pending action of
\* the chat keeps its row (status 'pending', never executed), and a tool call
\* started on a confirmation carries the arguments of the latest one.
C29_OnlyLatestPendingResolved ==
    [][\A ch \in Channels :
          LET S == PendingIdx(pending, ChatOf(ch))
          IN  /\ \A i \in S : (\E j \in S : j > i) =>
                    /\ pending'[i] = pending[i]
                    /\ (calls'[ch] # calls[ch] /\ calls'[ch].ctx = "confirmed")
                          => calls'[ch].act # i
              /\ (/\ calls[ch].pc = "claimed" /\ calls'[ch].pc = "tool"
                  /\ calls'[ch].ctx = "confirmed") =>
                    /\ calls'[ch].act = Latest(S)
                    /\ pending'[Latest(S)].status = "approved"]_vars

\* Two pending actions of one chat were pending together; a YES approved the
\* later one and the earlier one is still pending and was never executed.
C29_Witness ==
    \E ch \in Channels, i, j \in DOMAIN pending :
        /\ i < j
        /\ pending[i].chat_id = ChatOf(ch) /\ pending[j].chat_id = ChatOf(ch)
        /\ pending[i].status = "pending" /\ pending[i].execs = 0
        /\ pending[i].history = <<>>
        /\ pending[j].status = "approved" /\ pending[j].execs = 1

\* The loop.step rows of a call, ok or not.
StepRows(rec) == {i \in DOMAIN rec.audit : rec.audit[i] \in {"loop.step", FailedStep}}

\* C30: a call in the ReAct loop has one loop.step row per completed LLM
\* round-trip, written in the order of the round-trips and numbered 1, 2, ...,
\* k; a tool step's rows are loop.step, tool.execute, loop.tool_observation,
\* in that order and with the step's number, and they are all written before
\* the next LLM call starts; rows are only ever appended.
C30_StepRowsFollowRoundTrips ==
    /\ [](\A ch \in Channels :
            LET rec == calls[ch]
                a == rec.audit
                n == rec.audit_step
            IN  /\ rec.pc # "crashed" =>
                      Cardinality(StepRows(rec)) =
                          rec.llm - (IF rec.pc = "llm" THEN 1 ELSE 0)
                /\ \A i \in StepRows(rec) :
                      /\ n[i] = Cardinality({j \in StepRows(rec) : j <= i})
                      /\ i > 1 => a[i - 1] \in {FailedStep, "loop.tool_observation"}
                /\ \A i \in DOMAIN a :
                      /\ (a[i] = "tool.execute" /\ rec.react) =>
                            i >= 2 /\ a[i - 1] = "loop.step"
                      /\ a[i] = "loop.tool_observation" =>
                            /\ i >= 3
                            /\ a[i - 1] = "tool.execute" /\ a[i - 2] = "loop.step"
                            /\ n[i] = n[i - 2]
                /\ (rec.pc = "llm" /\ a # <<>>) =>
                      /\ a[Len(a)] \in {FailedStep, "loop.tool_observation"}
                      /\ n[Len(a)] = rec.step - 1)
    /\ [][\A ch \in Channels :
            (calls[ch].pc \in {"llm", "tool", "send"} /\ calls'[ch].pc # "crashed") =>
                /\ Len(calls'[ch].audit) >= Len(calls[ch].audit)
                /\ SubSeq(calls'[ch].audit, 1, Len(calls[ch].audit)) = calls[ch].audit
                /\ SubSeq(calls'[ch].audit_step, 1, Len(calls[ch].audit)) =
                      calls[ch].audit_step]_vars

\* Two tool steps and an answer: three loop.step rows numbered 1, 2, 3, each
\* tool step's rows between them, and one outbound.
C30_Witness ==
    \E ch \in Channels :
        /\ calls[ch].pc = "done" /\ calls[ch].llm = 3 /\ calls[ch].tools = 2
        /\ calls[ch].audit =
              <<"loop.step", "tool.execute", "loop.tool_observation",
                "loop.step", "tool.execute", "loop.tool_observation", "loop.step">>
        /\ calls[ch].audit_step = <<1, 0, 1, 2, 0, 2, 3>>
        /\ calls[ch].sent = <<"response">>

\* The handle_inbound calls in progress for a chat.
InProgress(chat_id) ==
    {<<ch, i>> \in Channels \X (1..MaxAwaited) :
        ChatOf(ch) = chat_id /\ i \in DOMAIN loops.running[ch]}

\* C31: at any time at most one handle_inbound call is in progress for a chat,
\* and a channel loop reads no message while its handler runs.
C31_OneHandlerPerChat ==
    \A chat_id \in Chats :
        /\ Cardinality(InProgress(chat_id)) <= 1
        /\ \A ch \in Channels :
              (ChatOf(ch) = chat_id /\ loops.running[ch] # <<>>) =>
                  loops.pos[ch] = "await"

\* The console handler waits for the LLM while the WhatsApp handler waits for
\* a tool and a scheduler emission waits in its send.
C31_Witness ==
    /\ loops.running["cli"] = <<"llm">>
    /\ loops.running["whatsapp"] = <<"tool">>
    /\ loops.emitting = <<"send">>

\* A tool result with ok = false has just been handed to the orchestrator,
\* which neither raised nor asked for a confirmation.
FailedResult(ch) ==
    /\ calls[ch].pc = "tool" /\ calls'[ch] # calls[ch]
    /\ ~calls'[ch].exc /\ pending' = pending
    /\ ~calls'[ch].ok

\* C32 (as the code has it): a result with ok = false of a direct or confirmed
\* command is sent to the user, redacted; in the ReAct loop it is sent only
\* when it carries artifacts, and is folded into the observation with
\* status=error; a tool is started only by a command, an approved
\* confirmation or a call decision, once each, never again after its result.
C32_FailedResultFoldedOrSent ==
    [][\A ch \in Channels :
          /\ FailedResult(ch) =>
                /\ calls'[ch].tools = calls[ch].tools
                /\ IF calls[ch].ctx = "react"
                   THEN \/ /\ calls'[ch].pc = "send" /\ calls'[ch].out = "artifact"
                           /\ calls'[ch].otext = ResultText(ch, Plain, TRUE)
                           /\ calls'[ch].step_messages = calls[ch].step_messages
                        \/ /\ calls'[ch].pc \in {"llm", "send"}
                           /\ calls'[ch].pc = "send" => calls'[ch].out = "maxsteps"
                           /\ calls'[ch].step_messages =
                                 calls[ch].step_messages \o ErrorObservation
                   ELSE /\ calls'[ch].pc = "send" /\ calls'[ch].out = "toolresult"
                        /\ \E artifacts \in BOOLEAN :
                              calls'[ch].otext = ResultText(ch, Plain, artifacts)
          /\ (/\ calls[ch].pc = "send" /\ calls[ch].out = "artifact"
              /\ ~calls[ch].ok /\ calls'[ch] # calls[ch] /\ ~calls'[ch].exc) =>
                /\ calls'[ch].step_messages =
                      calls[ch].step_messages \o ErrorObservation
                /\ calls'[ch].tools = calls[ch].tools
          /\ (InFlight(ch) /\ calls'[ch].tools # calls[ch].tools
                           /\ calls'[ch].pc # "crashed") =>
                /\ calls[ch].pc \in {"claimed", "llm"}
                /\ calls'[ch].pc = "tool"
                /\ calls'[ch].tools = calls[ch].tools + 1]_vars

\* A tool called by the model failed without artifacts: its result is in the
\* step messages with status=error, the model is asked again, and nothing
\* has been sent to the user.
C32_Witness ==
    \E ch \in Channels :
        /\ calls[ch].pc = "llm" /\ calls[ch].step = 2
        /\ ~calls[ch].ok /\ calls[ch].tools = 1
        /\ calls[ch].step_messages = ErrorObservation
        /\ calls[ch].sent = <<>> /\ calls[ch].attempts = 0

\* C32 as stated: every result with ok = false is sent to the user.
C32_FailedResultReported ==
    [][\A ch \in Channels :
          FailedResult(ch) =>
              /\ calls'[ch].pc = "send"
              /\ calls'[ch].out \in {"toolresult", "artifact"}]_vars

\* C33: each non-empty line other than exit/quit (trimmed, in any case) gives
\* exactly one inbound on chat 'cli-user' with an id and a trace id of its
\* own; an empty line gives none; exit, quit and the end of input end the
\* loop and give none.
C33_OneInboundPerLine ==
    LET quits(l) == l.eof \/ l.line.word \in {"exit", "quit"}
        made(i) == {k \in DOMAIN console.inbounds : console.inbounds[k].line = i}
    IN  /\ \A i \in DOMAIN console.lines :
              LET l == console.lines[i]
              IN  /\ quits(l) => made(i) = {} /\ console.pos = "ended"
                               /\ i = Len(console.lines)
                  /\ (~quits(l) /\ l.line = EmptyLine) => made(i) = {}
                  /\ (~quits(l) /\ l.line # EmptyLine) =>
                        /\ Cardinality(made(i)) = 1
                        /\ \A k \in made(i) :
                              /\ console.inbounds[k].chat_id = CliChat
                              /\ console.inbounds[k].text = l.line
        /\ \A k, m \in DOMAIN console.inbounds :
              /\ console.inbounds[k].id # console.inbounds[m].trace_id
              /\ k # m => /\ console.inbounds[k].id # console.inbounds[m].id
                          /\ console.inbounds[k].trace_id # console.inbounds[m].trace_id

\* C34: a ledger entry, once written, keeps its direction and its chat under
\* every later claim, send and delivery receipt.
C34_LedgerEntryKept ==
    [][\A message_id \in DOMAIN ledger :
          /\ message_id \in DOMAIN ledger'
          /\ ledger'[message_id] = ledger[message_id]]_vars

\* C35: a pending action changes only in the step that resolves a YES or NO
\* of its own chat, and a tool call started on a confirmation runs an action
\* of the chat the confirmation came from.
C35_OtherChatUntouched ==
    [][/\ \A i \in DOMAIN pending :
             pending'[i] # pending[i] =>
                 \E ch \in Channels :
                     /\ ChatOf(ch) = pending[i].chat_id
                     /\ calls[ch].pc = "claimed" /\ calls'[ch] # calls[ch]
                     /\ calls[ch].inb.kind \in YES \cup NO
       /\ \A ch \in Channels :
             (calls'[ch] # calls[ch] /\ calls'[ch].pc = "tool"
                                    /\ calls'[ch].ctx = "confirmed") =>
                 /\ calls'[ch].act \in DOMAIN pending
                 /\ pending[calls'[ch].act].chat_id = ChatOf(ch)
                 /\ calls'[ch].args.chat_id = ChatOf(ch)]_vars

\* Both chats held a pending action; the YES of the console approved and ran
\* the console's, and the WhatsApp chat's is still pending, though it is the
\* later one.
C35_Witness ==
    \E i, j \in DOMAIN pending :
        /\ i < j
        /\ pending[i].chat_id = CliChat /\ pending[j].chat_id = WaChat
        /\ pending[i].status = "approved" /\ pending[i].execs = 1
        /\ pending[j].status = "pending" /\ pending[j].execs = 0
        /\ pending[j].history = <<>>

\* C36: a YES or NO that finds no pending action of its chat, or one that has
\* expired, is not consumed: no tool is invoked and no action is executed, at
\* most the expired action is marked so, and the text goes to the ReAct loop
\* (or to the error reply when building the prompt raises); a call that went
\* to the ReAct loop does not return before a reply was handed over or the
\* error reply was tried.
C36_UnmatchedAnswerGoesOn ==
    /\ [][\A ch \in Channels :
            LET i == get_latest_pending_action(pending, ChatOf(ch))
                after == calls'[ch]
            IN  (/\ calls[ch].pc = "claimed" /\ after.persisted
                 /\ calls[ch].inb.kind \in YES \cup NO
                 /\ (i = 0 \/ pending[i].expires_at < now)) =>
                    /\ after.tools = 0 /\ after.ctx # "confirmed"
                    /\ after.out # "cancel"
                    /\ \/ after.pc = "llm" /\ after.react /\ after.llm = 1
                       \/ after.raised /\ after.out = "fallback"
                    /\ \A j \in DOMAIN pending :
                          /\ pending'[j].execs = pending[j].execs
                          /\ pending'[j] # pending[j] =>
                                j = i /\ pending'[j].status = "expired"]_vars
    /\ [](\A ch \in Channels :
            (calls[ch].pc = "done" /\ calls[ch].react) =>
                calls[ch].sent # <<>> \/ calls[ch].attempts >= 1)

\* A YES in a chat without any pending action was answered by the model.
C36_Witness ==
    \E ch \in Channels :
        /\ pending = <<>> /\ handled = 1
        /\ calls[ch].pc = "done" /\ calls[ch].react
        /\ calls[ch].sent = <<"response">> /\ calls[ch].tools = 0

\* The outbounds that end a call, and the interim one.
ReplyKinds == {"response", "toolresult", "confirm", "cancel", "usage",
               "maxsteps", "fallback", "artifact"}

\* C37: with LLM calls, tool runs and sends that come back, every
\* handle_inbound call returns; a call that passed the filter, the claim and
\* the empty-payload guard has by then handed a reply to its channel or tried
\* the error reply, and hands over nothing but the seven replies and interim
\* artifact messages.
C37_ReturnsWithReply ==
    /\ \A ch \in Channels : InFlight(ch) ~> (calls[ch].pc = "done")
    /\ [](\A ch \in Channels :
            /\ (calls[ch].pc = "done" /\ (calls[ch].nonempty \/ calls[ch].raised)) =>
                  calls[ch].sent # <<>> \/ calls[ch].attempts >= 1
            /\ \A k \in DOMAIN calls[ch].sent : calls[ch].sent[k] \in ReplyKinds)

\* A call returned after its reply could not be sent and the error reply,
\* tried once, could not be sent either.
C37_Witness ==
    \E ch \in Channels :
        /\ calls[ch].pc = "done" /\ calls[ch].nonempty
        /\ calls[ch].raised /\ calls[ch].attempts = 1
        /\ calls[ch].sent = <<>> /\ calls[ch].llm = 1

\* C38: whatever scheduler operations have completed, the job ids of the jobs
\* table are the job ids the in-process scheduler holds a trigger for.
C38_RowsMatchTriggers ==
    {jobs[i].job_id : i \in DOMAIN jobs} = triggers

\* C39: a cancel or an update that comes from a chat other than the job's own
\* is answered with ok = false and changes neither the rows nor the triggers
\* nor their next runs; a list gives the jobs of the chat it comes from.
C39_ForeignChatRefused ==
    [][/\ (/\ ran' # ran /\ ran'.action \in {"cancel", "update"}
           /\ ran'.job_chat # NoChat
           /\ ran'.job_chat # ran'.inbound_chat) =>
              /\ ~ran'.ok
              /\ UNCHANGED <<jobs, triggers, next_run_time>>
       /\ (ran' # ran /\ ran'.action = "list") =>
              ran'.listed = SelectSeq(jobs, LAMBDA r : r.chat_id = ran'.inbound_chat)]_vars

\* C40: once stop() was called, in whatever state the client was, the loop
\* starts no connection attempt, no further envelope is handled, and
\* run_forever returns in the end.
C40_StopEndsTheClient ==
    /\ [][~bridge.running =>
             /\ (bridge'.conn = "connecting" => bridge.conn = "connecting")
             /\ bridge'.received = bridge.received]_vars
    /\ (~bridge.running) ~> (bridge.conn = "returned")

====
